---- MODULE Spec2Model ----
(***************************************************************************)
(* Splash World: worker supervision, configuration passes and the World    *)
(* loop (src/src/world.cpp).                                               *)
(*                                                                         *)
(* Threads of the World process:                                           *)
(*   main    World::run: one applyConfig pass, then the loop               *)
(*   reload  the asynchronous task of the "loadConfig" attribute           *)
(*   handler the Link's message thread (sceneLaunched, quit, loadConfig,   *)
(*           handleSerializedObject); each handler is one atomic action    *)
(* The environment: the Scenes (spawned processes, the inner Scene thread, *)
(* externally started Scenes), buffer transfers and POSIX signals.         *)
(***************************************************************************)
EXTENDS Integers, Sequences, FiniteSets, TLC

\* ------------------------------------------------------------------ bounds
\* Number of process ids posix_spawn can hand out in one run.
MaxProcs == 2
\* Number of one-shot tasks queued in one run.
MaxTasks == 3
\* Number of input events GLFW reports in one run.
MaxEvents == 3

\* ------------------------------------------------------------- vocabulary
SceneNames == {"s1", "s2", "s3"}
\* Scenes started from outside the World, running throughout
ExternalScenes == {"s3"}
\* _masterSceneName = "" : no master designated
NoName == ""
\* _innerScene == nullptr
NoScene == "nullptr"
\* SPLASH_ALL_PEERS
AllPeers == "ALL"
\* Types addLocally mirrors on the World side (world.cpp:178)
LocalTypes == {"image", "mesh", "queue"}
\* $DISPLAY of the World process, already completed with ".0" (world.cpp:254-258)
EnvDisplay == ":0.0"

\* std::map<string, int> iterates its keys in increasing order
Rank(n) == CASE n = "" -> 0 [] n = "s1" -> 1 [] n = "s2" -> 2 [] n = "s3" -> 3 [] OTHER -> 4
MinKey(S) == CHOOSE n \in S : \A m \in S : Rank(n) <= Rank(m)
KeysAfter(S, done) == S \ done
EmptyMap == [n \in {} |-> 0]

\* ------------------------------------------------ configuration documents
\* A scene declaration: name, "spawn" (default 1), "display" ("" = absent)
Decl(n, sp, d) == [name |-> n, spawn |-> sp, display |-> d]
Obj(n, t) == [name |-> n, type |-> t]
\* A member the JSON value does not have (isMember is false)
NoMember == "<absent>"
\* A "name" member that is a JSON object: Json::Value::asString throws on it
NotAString == "<object>"
\* world.cpp:238 and 282: the declaration has a "name" that converts to a string
Named(decl) == decl.name \notin {NoMember, NotAString}
\* world.cpp:385 and 455: the object has a "type"
Typed(obj) == obj.type # NoMember

\* scenes: the "scenes" array; objs: per scene section, the objects in member
\* order; links: per scene section, the number of [src, sink] pairs of "links";
\* world: the number of attributes of the "world" section.
Docs ==
  << [scenes |-> << Decl("s1", 1, ""), Decl("s2", 1, ":0.1") >>,
      objs   |-> [s1 |-> << Obj("img", "image"), Obj("cam", "camera") >>,
                  s2 |-> << Obj("img", "image") >>],
      links  |-> [s1 |-> 1, s2 |-> 0],
      world  |-> 1],
     [scenes |-> << Decl("s3", 0, ""), Decl("s1", 1, ":0.1") >>,
      objs   |-> [s1 |-> << Obj("img", "image") >>, s3 |-> << >>],
      links  |-> [s1 |-> 0, s3 |-> 1],
      world  |-> 0] >>
DocIds == 1..Len(Docs)
\* Documents with a malformed entry: a scene declaration without "name"; an
\* object without "type"; a scene declaration whose "name" is not a string.
BadDocs ==
  << [scenes |-> << Decl("s3", 0, ""), Decl(NoMember, 1, ""), Decl("s1", 1, "") >>,
      objs   |-> [s1 |-> << >>, s3 |-> << Obj("img", "image") >>],
      links  |-> [s1 |-> 0, s3 |-> 0],
      world  |-> 0],
     [scenes |-> << Decl("s3", 0, ""), Decl("s1", 1, "") >>,
      objs   |-> [s1 |-> << Obj("cam", NoMember), Obj("img", "image") >>,
                  s3 |-> << Obj("cam", "camera") >>],
      links  |-> [s1 |-> 0, s3 |-> 0],
      world  |-> 0],
     [scenes |-> << Decl("s3", 0, ""), Decl(NotAString, 1, ""), Decl("s1", 1, "") >>,
      objs   |-> [s1 |-> << >>, s3 |-> << Obj("img", "image") >>],
      links  |-> [s1 |-> 0, s3 |-> 0],
      world  |-> 0] >>
\* A document whose scene names the display of the World process itself, and
\* one whose only scene, the master, is on another display.
DisplayDocs ==
  << [scenes |-> << Decl("s1", 1, EnvDisplay) >>,
      objs   |-> [s1 |-> << Obj("img", "image") >>],
      links  |-> [s1 |-> 0],
      world  |-> 0],
     [scenes |-> << Decl("s2", 1, ":0.1") >>,
      objs   |-> [s2 |-> << Obj("img", "image") >>],
      links  |-> [s2 |-> 0],
      world  |-> 0] >>
\* A document with three mirrored objects for one external Scene.
FanDocs ==
  << [scenes |-> << Decl("s3", 0, "") >>,
      objs   |-> [s3 |-> << Obj("img", "image"), Obj("imgq", "queue"), Obj("pic", "image") >>],
      links  |-> [s3 |-> 0],
      world  |-> 0] >>
AllDocs == Docs \o BadDocs \o DisplayDocs \o FanDocs
BadDocIds == (Len(Docs) + 1)..(Len(Docs) + Len(BadDocs))
DisplayDocIds == (Len(Docs) + Len(BadDocs) + 1)..(Len(Docs) + Len(BadDocs) + Len(DisplayDocs))
FanDocIds == (Len(Docs) + Len(BadDocs) + Len(DisplayDocs) + 1)..Len(AllDocs)
\* The names of the mirrored objects of all documents
FanNames == {"img", "imgq", "pic"}
\* std::map<string, ...> iterates _objects in the order of the names
ObjRank(n) == CASE n = "img" -> 1 [] n = "imgq" -> 2 [] n = "pic" -> 3 [] OTHER -> 4
MinObj(S) == CHOOSE n \in S : \A m \in S : ObjRank(n) <= ObjRank(m)
\* BufferObject::getDistantName: the name of the distant object the payloads
\* of the record are for. Two records may carry the same one (world.cpp:94-96
\* provides for it): "imgq" carries the distant name of "img".
DistantName(n) == IF n = "imgq" THEN "img" ELSE n
ObjNames == {"img", "cam"}
\* The names of the buffer objects (image, mesh, queue) among them
BufferNames == {"img"}
\* The names recurring tasks are registered under (world.cpp:1816, 1844)
RecurringNames == {"pingTest", "swapTest"}
\* The object names the messages of a controller carry
TaskNames == {"img", "pic"}

VARIABLES
  \* ---- World fields
  scenes,            \* _scenes: name -> pid
  masterSceneName,   \* _masterSceneName
  quit,              \* _quit
  sceneLaunched,     \* _sceneLaunched
  innerScene,        \* _innerScene: the name it was made with, or NoScene
  innerThread,       \* _innerSceneThread: "none" (not joinable), "starting",
                     \*   "ready", "exited" (joinable, body returned)
  config,            \* _config (a DocId)
  reloadingConfig,   \* _reloadingConfig
  objects,           \* _objects: name -> [updated]
  objectDest,        \* _objectDest: name -> sequence of scene names
  connected,         \* the Link's connected destinations
  cfgLock,           \* _configurationMutex: "free", "main", "reload"
  \* ---- threads
  mainpc,            \* position of World::run
  serialized,        \* serializedObjects of the current iteration (non-null entries)
  waitResult,        \* what waitForBufferSending returned in this iteration
  rl,                \* the loadConfig asynchronous task
  ap,                \* the frame of the running applyConfig
  \* ---- environment
  procs,             \* spawned processes: pid -> [name, st]
  inFlight,          \* per object name: a payload is not fully transmitted
  \* ---- observation
  passLog,           \* messages applyConfig sent in the current pass: <<kind, to>>
  quitSent,          \* workers the loop's shutdown broadcast addressed
  \* ---- tasks
  taskQueue,         \* the one-shot tasks addTask has queued, oldest first
  recurring,         \* the names of the registered recurring tasks
  nextId,            \* the number the next queued task is given
  executed,          \* the one-shot tasks run so far, in the order they ran
  invoked,           \* recurring tasks invoked by the latest runTasks: name -> count
  \* ---- the iteration
  fan,               \* the serialization block of world.cpp:84-116: the objects the
                     \*   loop has visited, the keys of serializedObjects, the
                     \*   tasks launched and running, the update() calls made
  pace,              \* the pacing of world.cpp:164-167: _worldFramerate, the elapsed
                     \*   time and the wait that was asked for
  unsent,            \* the buffer objects whose content is newer than the last
                     \*   payload serialized from them
  save,              \* the call of saveConfig, saveProject or getObjectsNameByType
                     \*   that the task being run has made: the workers asked so
                     \*   far, the answers read, and how a read of a missing
                     \*   element ended
  \* ---- Window (src/src/window.cpp)
  queues,            \* the static members _keys, _mouseBtn, _scroll and _mousePos
  recorded,          \* the events GLFW has handed to the callbacks, oldest first
  reader             \* the caller of getKeys, getMouseBtn, getScroll and
                     \*   getMousePos: its output arguments, the values returned,
                     \*   the events it was given so far

worldVars == <<scenes, masterSceneName, quit, sceneLaunched, innerScene, innerThread,
               config, reloadingConfig, objects, objectDest, connected>>
loopVars  == <<mainpc, serialized, waitResult, quitSent>>
envVars   == <<procs, inFlight>>
taskVars  == <<taskQueue, recurring, nextId, executed, invoked>>
iterVars  == <<fan, pace, unsent, save>>
winVars   == <<queues, recorded, reader>>
vars == <<worldVars, cfgLock, loopVars, rl, ap, envVars, passLog, taskVars, iterVars, winVars>>

\* ------------------------------------------------------------ small helpers
Pids == 1..MaxProcs
FreeProc == [name |-> NoName, st |-> "unused"]
Live(p) == procs[p].st \in {"starting", "ready"}
UnusedPids == {p \in Pids : procs[p].st = "unused"}

IdleAp == [pc |-> "idle", owner |-> "none", jsScenes |-> << >>, i |-> 0, pid |-> -1, it |-> {},
           synced |-> {}, started |-> {}, startFailed |-> NoScene,
           result |-> "none", spawned |-> {}, timedOut |-> NoScene]
IdleRl == [pc |-> "idle", doc |-> 0, cur |-> NoScene, valid |-> TRUE]
IdleFan == [phase |-> "idle", visited |-> {}, keys |-> {}, launched |-> {}, running |-> {},
            clearing |-> {}, updates |-> [n \in {} |-> 0]]
\* window.cpp:23-26: the queues are empty and _mousePos holds an empty vector.
NoEvents == [keys |-> << >>, mouseBtn |-> << >>, scroll |-> << >>, mousePos |-> << >>]
NoRecorded == [keys |-> << >>, mouseBtn |-> << >>, scroll |-> << >>, mousePos |-> << >>]
\* Output arguments the caller has not set
Unset == [win |-> "unset"]
NoOut == [ret |-> -1, args |-> Unset]
NewReader == [keys |-> NoOut, mouseBtn |-> NoOut, scroll |-> NoOut, mousePos |-> Unset,
              got |-> [keys |-> << >>, mouseBtn |-> << >>, scroll |-> << >>]]
IdleSave == [pc |-> "idle", op |-> "none", asked |-> {}, read |-> {}, missing |-> {}]
NoWait == [kind |-> "none", us |-> 0]
NoPace == [framerate |-> 0, elapsed |-> 0, wait |-> NoWait]

\* The threads of the World end with the process.
Alive == mainpc # "destroyed"

Doc == AllDocs[config]
Sections(d) == DOMAIN d.objs

\* world.cpp:247-279 and the test of line 289: the Scene's display is the World's
\* display. Without a "display" parameter the Scene inherits worldDisplay, which
\* is "none" while reloading (line 259).
WorldDisplay == IF reloadingConfig THEN "none" ELSE EnvDisplay
OnWorldDisplay(decl) ==
  LET display == IF decl.display = "" THEN WorldDisplay ELSE decl.display
  IN  display = WorldDisplay

\* Link::sendMessage(name, "quit") for every name of S: every live Scene
\* reachable under one of these names receives it, and ends.
QuitProcs(S) ==
  [p \in Pids |-> IF Live(p) /\ procs[p].name \in S
                  THEN [procs[p] EXCEPT !.st = "exited"] ELSE procs[p]]
QuitInner(S) ==
  IF innerThread \in {"starting", "ready"} /\ innerScene \in S THEN "exited" ELSE innerThread

\* A Scene that can reply to a request: a running one that reported ready, or
\* one started from outside.
CanAnswer(w) ==
  \/ \E p \in Pids : procs[p].name = w /\ procs[p].st = "ready"
  \/ innerScene = w /\ innerThread = "ready"
  \/ w \in ExternalScenes

InitFrom(ids) ==
  /\ scenes = EmptyMap
  /\ masterSceneName = NoName
  /\ quit = FALSE
  /\ sceneLaunched = FALSE
  /\ innerScene = NoScene
  /\ innerThread = "none"
  /\ config \in ids
  /\ reloadingConfig = FALSE
  /\ objects = EmptyMap
  /\ objectDest = EmptyMap
  /\ connected = {}
  /\ cfgLock = "free"
  /\ mainpc = "init"
  /\ serialized = {}
  /\ waitResult = "none"
  /\ rl = IdleRl
  /\ ap = IdleAp
  /\ procs = [p \in Pids |-> FreeProc]
  /\ inFlight = [n \in BufferNames |-> FALSE]
  /\ passLog = {}
  /\ quitSent = {}
  /\ taskQueue = << >>
  /\ recurring = {}
  /\ nextId = 1
  /\ executed = << >>
  /\ invoked = [n \in RecurringNames |-> 0]
  /\ fan = IdleFan
  /\ pace = NoPace
  /\ unsent = {}
  /\ save = IdleSave
  /\ queues = NoEvents
  /\ recorded = NoRecorded
  /\ reader = NewReader

\* The World is started on a well-formed configuration document.
Init == InitFrom(DocIds)
\* The World is started on any document, a malformed one included.
InitMalformed == InitFrom(DocIds \cup BadDocIds)


\* ------------------------------------------------------------ addLocally
\* Mutant: the destination is appended without the search of lines 200-203.
AddLocallyNoSearch(tab, type, name, destination) ==
  IF type \notin LocalTypes THEN tab
  ELSE [objects |-> (name :> [updated |-> FALSE]) @@ tab.objects,
        dest    |-> IF name \notin DOMAIN tab.dest
                    THEN (name :> << destination >>) @@ tab.dest
                    ELSE [tab.dest EXCEPT ![name] = Append(@, destination)]]

\* world.cpp:175-209. tab = [objects, dest]; returns the tables after the call.
AddLocally(tab, type, name, destination) ==
  IF type \notin LocalTypes THEN tab
  ELSE [objects |-> (name :> [updated |-> FALSE]) @@ tab.objects,
        dest    |-> IF name \notin DOMAIN tab.dest
                    THEN (name :> << destination >>) @@ tab.dest
                    ELSE IF \E k \in 1..Len(tab.dest[name]) : tab.dest[name][k] = destination
                         THEN tab.dest
                         ELSE [tab.dest EXCEPT ![name] = Append(@, destination)]]

\* The objects of one scene section, in member order (world.cpp:382-400).
\* Mutant: "break" in place of the "continue" of world.cpp:388: an object
\* without a type ends the loop over the section.
RECURSIVE AddSectionBreak(_, _, _, _)
AddSectionBreak(tab, objs, k, scene) ==
  IF k > Len(objs) \/ ~Typed(objs[k]) THEN tab
  ELSE AddSectionBreak(IF objs[k].type # "scene"
                       THEN AddLocally(tab, objs[k].type, objs[k].name, scene)
                       ELSE tab,
                       objs, k + 1, scene)

RECURSIVE AddSection(_, _, _, _)
AddSection(tab, objs, k, scene) ==
  IF k > Len(objs) THEN tab
  ELSE AddSection(IF Typed(objs[k]) /\ objs[k].type # "scene"
                  THEN AddLocally(tab, objs[k].type, objs[k].name, scene)
                  ELSE tab,
                  objs, k + 1, scene)

\* The loop over _scenes of world.cpp:372-406, keys in map order.
RECURSIVE AddAll(_, _, _)
AddAll(tab, d, todo) ==
  IF todo = {} THEN tab
  ELSE LET s == MinKey(todo)
       IN  AddAll(IF s \in Sections(d) THEN AddSection(tab, d.objs[s], 1, s) ELSE tab,
                  d, todo \ {s})

\* ------------------------------------------------------------ applyConfig
Applying(t) == ap.owner = t /\ cfgLock = t

\* Mutant: the pass does not clear the tables (world.cpp:217-220 missing).
ApplyBeginNoClear(t) ==
  /\ Alive
  /\ ap.pc = "idle"
  /\ cfgLock = "free"
  /\ \/ t = "main" /\ mainpc = "init" /\ mainpc' = "apply" /\ rl' = rl
     \/ t = "reload" /\ rl.pc = "callApply" /\ rl' = [rl EXCEPT !.pc = "apply"] /\ mainpc' = mainpc
  /\ cfgLock' = t
  /\ ap' = [IdleAp EXCEPT !.pc = "scenes", !.owner = t, !.jsScenes = Doc.scenes, !.i = 1]
  /\ passLog' = {}
  /\ UNCHANGED <<scenes, objects, objectDest, masterSceneName, quit, sceneLaunched,
                 innerScene, innerThread, config, reloadingConfig, connected, serialized,
                 waitResult, quitSent, envVars>>
  /\ UNCHANGED <<taskVars, iterVars, winVars>>

\* Mutant: the pass clears the shutdown flag together with the tables.
ApplyBeginResetsQuit(t) ==
  /\ Alive
  /\ ap.pc = "idle"
  /\ cfgLock = "free"
  /\ \/ t = "main" /\ mainpc = "init" /\ mainpc' = "apply" /\ rl' = rl
     \/ t = "reload" /\ rl.pc = "callApply" /\ rl' = [rl EXCEPT !.pc = "apply"] /\ mainpc' = mainpc
  /\ cfgLock' = t
  /\ scenes' = EmptyMap
  /\ objects' = EmptyMap
  /\ objectDest' = EmptyMap
  /\ masterSceneName' = NoName
  /\ quit' = FALSE
  /\ ap' = [IdleAp EXCEPT !.pc = "scenes", !.owner = t, !.jsScenes = Doc.scenes, !.i = 1]
  /\ passLog' = {}
  /\ UNCHANGED <<sceneLaunched, innerScene, innerThread, config, reloadingConfig,
                 connected, serialized, waitResult, quitSent, envVars>>
  /\ UNCHANGED <<taskVars, iterVars, winVars>>

\* world.cpp:214-231: take the configuration lock, clear the tables, copy the
\* "scenes" array of the document.
ApplyBegin(t) ==
  /\ Alive
  /\ ap.pc = "idle"
  /\ cfgLock = "free"
  /\ \/ t = "main" /\ mainpc = "init" /\ mainpc' = "apply" /\ rl' = rl
     \/ t = "reload" /\ rl.pc = "callApply" /\ rl' = [rl EXCEPT !.pc = "apply"] /\ mainpc' = mainpc
  /\ cfgLock' = t
  /\ scenes' = EmptyMap
  /\ objects' = EmptyMap
  /\ objectDest' = EmptyMap
  /\ masterSceneName' = NoName
  /\ ap' = [IdleAp EXCEPT !.pc = "scenes", !.owner = t, !.jsScenes = Doc.scenes, !.i = 1]
  /\ passLog' = {}
  /\ UNCHANGED <<quit, sceneLaunched, innerScene, innerThread, config, reloadingConfig,
                 connected, serialized, waitResult, quitSent, envVars>>
  /\ UNCHANGED <<taskVars, iterVars, winVars>>

\* world.cpp:339-359: record the worker, designate the master, connect the
\* Link, send the scene's parameters.
Register(name, pid) ==
  /\ scenes' = (name :> pid) @@ scenes
  /\ masterSceneName' = IF masterSceneName = NoName THEN name ELSE masterSceneName
  /\ connected' = connected \cup {name}
  /\ passLog' = passLog \cup {<<"param", name>>}

CurDecl == ap.jsScenes[ap.i]

\* world.cpp:233: the loop over the scene declarations has ended.
ApplyScenesDone ==
  /\ Alive
  /\ ap.pc = "scenes"
  /\ ap.i > Len(ap.jsScenes)
  /\ ap' = [ap EXCEPT !.pc = "setMaster"]
  /\ UNCHANGED <<worldVars, cfgLock, loopVars, rl, envVars, passLog>>
  /\ UNCHANGED <<taskVars, iterVars, winVars>>

\* Mutant: the readiness wait of world.cpp:326-336 is outside the test of
\* "spawn": a declaration with spawn = 0 waits for an acknowledgement too.
ApplyRegisterExternalWaits ==
  /\ Alive
  /\ ap.pc = "scenes"
  /\ ap.i <= Len(ap.jsScenes)
  /\ Named(CurDecl)
  /\ CurDecl.spawn = 0
  /\ sceneLaunched' = FALSE
  /\ ap' = [ap EXCEPT !.pc = "waitLaunch", !.pid = -1]
  /\ UNCHANGED <<scenes, masterSceneName, quit, innerScene, innerThread, config,
                 reloadingConfig, objects, objectDest, connected, cfgLock, loopVars, rl,
                 envVars, passLog>>
  /\ UNCHANGED <<taskVars, iterVars, winVars>>

\* world.cpp:282-347 with spawn = 0: an already running Scene is registered.
ApplyRegisterExternal ==
  /\ Alive
  /\ ap.pc = "scenes"
  /\ ap.i <= Len(ap.jsScenes)
  /\ Named(CurDecl)
  /\ CurDecl.spawn = 0
  /\ Register(CurDecl.name, -1)
  /\ ap' = [ap EXCEPT !.i = @ + 1, !.pid = -1]
  /\ UNCHANGED <<quit, sceneLaunched, innerScene, innerThread, config, reloadingConfig,
                 objects, objectDest, cfgLock, loopVars, rl, envVars>>
  /\ UNCHANGED <<taskVars, iterVars, winVars>>

\* world.cpp:284-294: the Scene runs in a thread of the World process.
ApplySpawnInner ==
  /\ Alive
  /\ ap.pc = "scenes"
  /\ ap.i <= Len(ap.jsScenes)
  /\ Named(CurDecl)
  /\ CurDecl.spawn > 0
  /\ OnWorldDisplay(CurDecl) /\ innerScene = NoScene
  /\ sceneLaunched' = FALSE
  /\ innerScene' = CurDecl.name
  /\ innerThread' = "starting"
  /\ ap' = [ap EXCEPT !.pc = "waitLaunch", !.pid = -1, !.spawned = @ \cup {CurDecl.name}]
  /\ UNCHANGED <<scenes, masterSceneName, quit, config, reloadingConfig, objects,
                 objectDest, connected, cfgLock, loopVars, rl, procs, inFlight,
                 passLog>>
  /\ UNCHANGED <<taskVars, iterVars, winVars>>

\* world.cpp:295-323: posix_spawn. ok = FALSE is a failed spawn (status # 0),
\* which leaves pid at -1; no process id is left once MaxProcs were handed out.
ApplySpawnProcess(ok) ==
  /\ Alive
  /\ ap.pc = "scenes"
  /\ ap.i <= Len(ap.jsScenes)
  /\ Named(CurDecl)
  /\ CurDecl.spawn > 0
  /\ ~(OnWorldDisplay(CurDecl) /\ innerScene = NoScene)
  /\ sceneLaunched' = FALSE
  /\ IF ok /\ UnusedPids # {}
     THEN LET p == CHOOSE q \in UnusedPids : \A r \in UnusedPids : q <= r
          IN  /\ procs' = [procs EXCEPT ![p] = [name |-> CurDecl.name, st |-> "starting"]]
              /\ ap' = [ap EXCEPT !.pc = "waitLaunch", !.pid = p,
                                  !.spawned = @ \cup {CurDecl.name}]
     ELSE /\ procs' = procs
          /\ ap' = [ap EXCEPT !.pc = "waitLaunch", !.pid = -1,
                              !.spawned = @ \cup {CurDecl.name}]
  /\ UNCHANGED <<scenes, masterSceneName, quit, innerScene, innerThread, config,
                 reloadingConfig, objects, objectDest, connected, cfgLock, loopVars, rl,
                 inFlight, passLog>>
  /\ UNCHANGED <<taskVars, iterVars, winVars>>

\* world.cpp:238-242: a declaration without "name": the error is logged and
\* applyConfig returns.
ApplyNoName ==
  /\ Alive
  /\ ap.pc = "scenes"
  /\ ap.i <= Len(ap.jsScenes)
  /\ CurDecl.name = NoMember
  /\ ap' = [ap EXCEPT !.pc = "done", !.result = "noName"]
  /\ UNCHANGED <<worldVars, cfgLock, loopVars, rl, envVars, passLog>>
  /\ UNCHANGED <<taskVars, iterVars, winVars>>

\* Mutant: the handler of world.cpp:506-510 without its "return": the pass
\* goes on with the "start" loop of line 521.
ApplyExceptionNoReturn ==
  /\ Alive
  /\ ap.pc = "scenes"
  /\ ap.i <= Len(ap.jsScenes)
  /\ CurDecl.name = NotAString
  /\ ap' = [ap EXCEPT !.pc = "start", !.it = {}]
  /\ UNCHANGED <<worldVars, cfgLock, loopVars, rl, envVars, passLog>>
  /\ UNCHANGED <<taskVars, iterVars, winVars>>

\* world.cpp:282 then 506-510: the conversion of "name" throws inside the try
\* block; catch (...) logs the error and applyConfig returns.
ApplyException ==
  /\ Alive
  /\ ap.pc = "scenes"
  /\ ap.i <= Len(ap.jsScenes)
  /\ CurDecl.name = NotAString
  /\ ap' = [ap EXCEPT !.pc = "done", !.result = "exception"]
  /\ UNCHANGED <<worldVars, cfgLock, loopVars, rl, envVars, passLog>>
  /\ UNCHANGED <<taskVars, iterVars, winVars>>

\* world.cpp:326-336 then 339-359: the readiness wait ends because
\* _sceneLaunched is set.
ApplyWaitLaunched ==
  /\ Alive
  /\ ap.pc = "waitLaunch"
  /\ sceneLaunched
  /\ Register(CurDecl.name, ap.pid)
  /\ ap' = [ap EXCEPT !.pc = "scenes", !.i = @ + 1]
  /\ UNCHANGED <<quit, sceneLaunched, innerScene, innerThread, config, reloadingConfig,
                 objects, objectDest, cfgLock, loopVars, rl, envVars>>
  /\ UNCHANGED <<taskVars, iterVars, winVars>>

\* Mutant: the timeout sets _quit but the "return" of world.cpp:334 is missing,
\* so the pass goes on with the next declaration.
ApplyWaitTimeoutNoReturn ==
  /\ Alive
  /\ ap.pc = "waitLaunch"
  /\ ~sceneLaunched
  /\ quit' = TRUE
  /\ ap' = [ap EXCEPT !.pc = "scenes", !.i = @ + 1, !.timedOut = CurDecl.name]
  /\ UNCHANGED <<scenes, masterSceneName, sceneLaunched, innerScene, innerThread, config,
                 reloadingConfig, objects, objectDest, connected, cfgLock, loopVars, rl,
                 envVars, passLog>>
  /\ UNCHANGED <<taskVars, iterVars, winVars>>

\* Mutant: wait() in place of wait_for(5 s): the readiness wait has no timeout.
ApplyWaitNoTimeout ==
  /\ Alive
  /\ ap.pc = "waitLaunch"
  /\ FALSE
  /\ UNCHANGED vars

\* world.cpp:329-335: the 5 s wait_for times out: _quit = true; return.
ApplyWaitTimeout ==
  /\ Alive
  /\ ap.pc = "waitLaunch"
  /\ ~sceneLaunched
  /\ quit' = TRUE
  /\ ap' = [ap EXCEPT !.pc = "done", !.result = "spawnTimeout", !.timedOut = CurDecl.name]
  /\ UNCHANGED <<scenes, masterSceneName, sceneLaunched, innerScene, innerThread, config,
                 reloadingConfig, objects, objectDest, connected, cfgLock, loopVars, rl,
                 envVars, passLog>>
  /\ UNCHANGED <<taskVars, iterVars, winVars>>

\* world.cpp:370
ApplySetMaster ==
  /\ Alive
  /\ ap.pc = "setMaster"
  /\ passLog' = passLog \cup {<<"setMaster", masterSceneName>>}
  /\ ap' = [ap EXCEPT !.pc = "add"]
  /\ UNCHANGED <<worldVars, cfgLock, loopVars, rl, envVars>>
  /\ UNCHANGED <<taskVars, iterVars, winVars>>

\* Mutant: the links are sent in the loop that creates the objects, before the
\* "sync" round trip.
ApplyAddAndLink ==
  /\ Alive
  /\ ap.pc = "add"
  /\ LET tab == AddAll([objects |-> objects, dest |-> objectDest], Doc, DOMAIN scenes)
         secs == DOMAIN scenes \cap Sections(Doc)
     IN  /\ objects' = tab.objects
         /\ objectDest' = tab.dest
         /\ passLog' = passLog
              \cup (IF \E s \in secs : \E k \in 1..Len(Doc.objs[s]) :
                                           Typed(Doc.objs[s][k]) /\ Doc.objs[s][k].type # "scene"
                    THEN {<<"add", AllPeers>>} ELSE {})
              \cup (IF \E s \in secs : Doc.links[s] > 0 THEN {<<"link", AllPeers>>} ELSE {})
              \cup (IF secs # {} THEN {<<"path", AllPeers>>} ELSE {})
  /\ ap' = [ap EXCEPT !.pc = "sync", !.it = {}]
  /\ UNCHANGED <<scenes, masterSceneName, quit, sceneLaunched, innerScene, innerThread,
                 config, reloadingConfig, connected, cfgLock, loopVars, rl, envVars>>
  /\ UNCHANGED <<taskVars, iterVars, winVars>>

\* world.cpp:372-406: "add" for every object of every registered scene's
\* section, mirrored locally, then the default paths.
ApplyAdd ==
  /\ Alive
  /\ ap.pc = "add"
  /\ LET tab == AddAll([objects |-> objects, dest |-> objectDest], Doc, DOMAIN scenes)
         secs == DOMAIN scenes \cap Sections(Doc)
     IN  /\ objects' = tab.objects
         /\ objectDest' = tab.dest
         /\ passLog' = passLog
              \cup (IF \E s \in secs : \E k \in 1..Len(Doc.objs[s]) :
                                           Typed(Doc.objs[s][k]) /\ Doc.objs[s][k].type # "scene"
                    THEN {<<"add", AllPeers>>} ELSE {})
              \cup (IF secs # {} THEN {<<"path", AllPeers>>} ELSE {})
  /\ ap' = [ap EXCEPT !.pc = "sync", !.it = {}]
  /\ UNCHANGED <<scenes, masterSceneName, quit, sceneLaunched, innerScene, innerThread,
                 config, reloadingConfig, connected, cfgLock, loopVars, rl, envVars>>
  /\ UNCHANGED <<taskVars, iterVars, winVars>>

\* RootObject::sendMessageWithAnswer: the request is sent, and the call returns
\* the reply (answered) or, once its timeout has elapsed, an empty result.
SendMessageWithAnswer(w, answered) == answered => CanAnswer(w)

\* world.cpp:409-410: one "sync" round trip; the answer is not looked at.
ApplySync(answered) ==
  /\ Alive
  /\ ap.pc = "sync"
  /\ KeysAfter(DOMAIN scenes, ap.it) # {}
  /\ LET w == MinKey(KeysAfter(DOMAIN scenes, ap.it))
     IN  /\ SendMessageWithAnswer(w, answered)
         /\ passLog' = passLog \cup {<<"sync", w>>}
         /\ ap' = [ap EXCEPT !.it = @ \cup {w},
                             !.synced = IF answered THEN @ \cup {w} ELSE @]
  /\ UNCHANGED <<worldVars, cfgLock, loopVars, rl, envVars>>
  /\ UNCHANGED <<taskVars, iterVars, winVars>>

ApplySyncDone ==
  /\ Alive
  /\ ap.pc = "sync"
  /\ KeysAfter(DOMAIN scenes, ap.it) = {}
  /\ ap' = [ap EXCEPT !.pc = "link", !.it = {}]
  /\ UNCHANGED <<worldVars, cfgLock, loopVars, rl, envVars, passLog>>
  /\ UNCHANGED <<taskVars, iterVars, winVars>>

\* world.cpp:413-438
ApplyLink ==
  /\ Alive
  /\ ap.pc = "link"
  /\ passLog' = passLog
       \cup (IF \E s \in DOMAIN scenes \cap Sections(Doc) : Doc.links[s] > 0
             THEN {<<"link", AllPeers>>} ELSE {})
  /\ ap' = [ap EXCEPT !.pc = "attrs"]
  /\ UNCHANGED <<worldVars, cfgLock, loopVars, rl, envVars>>
  /\ UNCHANGED <<taskVars, iterVars, winVars>>

\* world.cpp:441-488: every object's attributes, sent to the object's name.
ApplyAttrs ==
  /\ Alive
  /\ ap.pc = "attrs"
  /\ passLog' = passLog
       \cup UNION { { <<"attr", Doc.objs[s][k].name>> :
                       k \in {j \in 1..Len(Doc.objs[s]) : Typed(Doc.objs[s][j])} } :
                     s \in DOMAIN scenes \cap Sections(Doc) }
  /\ ap' = [ap EXCEPT !.pc = "world"]
  /\ UNCHANGED <<worldVars, cfgLock, loopVars, rl, envVars>>
  /\ UNCHANGED <<taskVars, iterVars, winVars>>


\* world.cpp:492-504: the attributes of the World itself.
ApplyWorld ==
  /\ Alive
  /\ ap.pc = "world"
  /\ passLog' = passLog \cup (IF Doc.world > 0 THEN {<<"world", "world">>} ELSE {})
  /\ ap' = [ap EXCEPT !.pc = "start", !.it = {}]
  /\ UNCHANGED <<worldVars, cfgLock, loopVars, rl, envVars>>
  /\ UNCHANGED <<taskVars, iterVars, winVars>>

\* Mutant: an empty answer sets _quit but the "break" of world.cpp:528 is
\* missing, so "start" goes to the remaining workers too.
ApplyStartNoBreak(answered) ==
  /\ Alive
  /\ ap.pc = "start"
  /\ KeysAfter(DOMAIN scenes, ap.it) # {}
  /\ LET w == MinKey(KeysAfter(DOMAIN scenes, ap.it))
     IN  /\ SendMessageWithAnswer(w, answered)
         /\ passLog' = passLog \cup {<<"start", w>>}
         /\ ap' = [ap EXCEPT !.it = @ \cup {w}, !.started = @ \cup {w},
                             !.startFailed = IF answered THEN @ ELSE w]
         /\ quit' = (quit \/ ~answered)
  /\ UNCHANGED <<scenes, masterSceneName, sceneLaunched, innerScene, innerThread, config,
                 reloadingConfig, objects, objectDest, connected, cfgLock, loopVars, rl,
                 envVars>>
  /\ UNCHANGED <<taskVars, iterVars, winVars>>

\* world.cpp:521-530: "start" to the next worker; an empty answer sets _quit
\* and leaves the loop.
ApplyStart(answered) ==
  /\ Alive
  /\ ap.pc = "start"
  /\ KeysAfter(DOMAIN scenes, ap.it) # {}
  /\ LET w == MinKey(KeysAfter(DOMAIN scenes, ap.it))
     IN  /\ SendMessageWithAnswer(w, answered)
         /\ passLog' = passLog \cup {<<"start", w>>}
         /\ IF answered
            THEN /\ ap' = [ap EXCEPT !.it = @ \cup {w}, !.started = @ \cup {w}]
                 /\ quit' = quit
            ELSE /\ ap' = [ap EXCEPT !.pc = "done", !.result = "startTimeout",
                                     !.started = @ \cup {w}, !.startFailed = w]
                 /\ quit' = TRUE
  /\ UNCHANGED <<scenes, masterSceneName, sceneLaunched, innerScene, innerThread, config,
                 reloadingConfig, objects, objectDest, connected, cfgLock, loopVars, rl,
                 envVars>>
  /\ UNCHANGED <<taskVars, iterVars, winVars>>

ApplyStartDone ==
  /\ Alive
  /\ ap.pc = "start"
  /\ KeysAfter(DOMAIN scenes, ap.it) = {}
  /\ ap' = [ap EXCEPT !.pc = "done", !.result = "ok"]
  /\ UNCHANGED <<worldVars, cfgLock, loopVars, rl, envVars, passLog>>
  /\ UNCHANGED <<taskVars, iterVars, winVars>>

\* applyConfig returns: the lock_guard of world.cpp:214 releases the lock.
ApplyReturn ==
  /\ Alive
  /\ ap.pc = "done"
  /\ cfgLock' = "free"
  /\ IF ap.owner = "main"
     THEN mainpc' = "loop" /\ rl' = rl
     ELSE mainpc' = mainpc /\ rl' = IdleRl
  /\ ap' = IdleAp
  /\ passLog' = {}
  /\ UNCHANGED <<worldVars, serialized, waitResult, quitSent, envVars>>
  /\ UNCHANGED <<taskVars, iterVars, winVars>>

ApplyStep ==
  \/ ApplyScenesDone \/ ApplyRegisterExternal \/ ApplySpawnInner
  \/ \E ok \in BOOLEAN : ApplySpawnProcess(ok)
  \/ ApplyWaitLaunched \/ ApplyWaitTimeout
  \/ ApplySetMaster \/ ApplyAdd
  \/ \E answered \in BOOLEAN : ApplySync(answered)
  \/ ApplySyncDone \/ ApplyLink \/ ApplyAttrs \/ ApplyWorld
  \/ \E answered \in BOOLEAN : ApplyStart(answered)
  \/ ApplyStartDone \/ ApplyReturn

\* ------------------------------------------------------------------ tasks
\* RootObject::addTask: the task goes to the end of the queue.
AddTask(q, id, kind, a, b) == Append(q, [id |-> id, kind |-> kind, a |-> a, b |-> b])

Without(f, k) == [x \in DOMAIN f \ {k} |-> f[x]]

\* world.cpp:1389-1412, the task of "addObject": type a, name b, mirrored for
\* every worker of the table in map order.
RECURSIVE AddObjectTask(_, _, _, _)
AddObjectTask(tab, type, name, todo) ==
  IF todo = {} THEN tab
  ELSE LET s == MinKey(todo)
       IN  AddObjectTask(AddLocally(tab, type, name, s), type, name, todo \ {s})

\* Mutant: the task also forgets every other object that shares a worker with
\* the deleted one.
DeleteObjectAndSharers(tab, objectName) ==
  LET workers(o) == {tab.dest[o][k] : k \in 1..Len(tab.dest[o])}
      gone == IF objectName \in DOMAIN tab.dest
              THEN {o \in DOMAIN tab.dest : workers(o) \cap workers(objectName) # {}}
              ELSE {objectName}
  IN  [objects |-> [x \in DOMAIN tab.objects \ gone |-> tab.objects[x]],
       dest    |-> [x \in DOMAIN tab.dest \ gone |-> tab.dest[x]]]

\* world.cpp:1428-1445, the task of "deleteObject".
DeleteObjectTask(tab, objectName) ==
  [objects |-> IF objectName \in DOMAIN tab.objects THEN Without(tab.objects, objectName)
               ELSE tab.objects,
   dest    |-> IF objectName \in DOMAIN tab.dest THEN Without(tab.dest, objectName)
               ELSE tab.dest]

\* world.cpp:1666-1688, the task of "renameObject": _objects[newName] = object,
\* then the entry found under the old name is erased; the destination entry is
\* erased and a new one is made that holds the new name.
RenameObjectTask(tab, name, newName) ==
  IF name \notin DOMAIN tab.objects THEN tab
  ELSE [objects |-> Without((newName :> tab.objects[name]) @@ tab.objects, name),
        dest    |-> IF name \in DOMAIN tab.dest
                    THEN (newName :> << newName >>) @@ Without(tab.dest, name)
                    ELSE tab.dest]

\* The effect of one queued task on the object and destination tables.
RunTask(tab, t, workers) ==
  CASE t.kind = "add"    -> AddObjectTask(tab, t.a, t.b, workers)
    [] t.kind = "delete" -> DeleteObjectTask(tab, t.a)
    [] t.kind = "rename" -> RenameObjectTask(tab, t.a, t.b)
    [] OTHER             -> tab

\* RootObject::runTasks, first part: the queued tasks run oldest first.
RECURSIVE RunAll(_, _, _)
RunAll(tab, q, workers) ==
  IF q = << >> THEN tab ELSE RunAll(RunTask(tab, Head(q), workers), Tail(q), workers)

\* ----------------------------------------------------------- World::run
\* world.cpp:74: the iteration takes the configuration lock.
LoopLock ==
  /\ mainpc = "loop"
  /\ cfgLock = "free"
  /\ cfgLock' = "main"
  /\ mainpc' = "tasks"
  /\ UNCHANGED <<worldVars, serialized, waitResult, quitSent, rl, ap, envVars,
                 passLog>>
  /\ UNCHANGED <<taskVars, iterVars, winVars>>

\* world.cpp:77, RootObject::runTasks: the queued tasks run oldest first and
\* leave the queue, then every registered recurring task is invoked once.
LoopRunTasks ==
  /\ mainpc = "tasks"
  /\ LET tab == RunAll([objects |-> objects, dest |-> objectDest], taskQueue, DOMAIN scenes)
     IN  /\ objects' = tab.objects
         /\ objectDest' = tab.dest
  /\ executed' = executed \o taskQueue
  /\ taskQueue' = << >>
  /\ invoked' = [n \in RecurringNames |-> IF n \in recurring THEN 1 ELSE 0]
  /\ mainpc' = "serialize"
  /\ UNCHANGED <<scenes, masterSceneName, quit, sceneLaunched, innerScene, innerThread,
                 config, reloadingConfig, connected, cfgLock, serialized, waitResult,
                 quitSent, rl, ap, envVars, passLog, recurring, nextId, iterVars, winVars>>

\* Mutant: the iteration dispatches right after serializing, without the wait of
\* world.cpp:119.
LoopSerializeNoWait ==
  /\ mainpc = "serialize"
  /\ serialized' = {o \in DOMAIN objects : objects[o].updated}
  /\ objects' = [o \in DOMAIN objects |-> [updated |-> FALSE]]
  /\ mainpc' = "dispatch"
  /\ UNCHANGED <<scenes, masterSceneName, quit, sceneLaunched, innerScene, innerThread,
                 config, reloadingConfig, objectDest, connected, cfgLock, waitResult,
                 quitSent, rl, ap, envVars, passLog>>
  /\ UNCHANGED <<taskVars, iterVars, winVars>>

\* world.cpp:84-116: a payload for every object whose buffer was updated; the
\* flag is cleared.
LoopSerialize ==
  /\ mainpc = "serialize"
  /\ serialized' = {o \in DOMAIN objects : objects[o].updated}
  /\ objects' = [o \in DOMAIN objects |-> [updated |-> FALSE]]
  /\ mainpc' = "wait"
  /\ UNCHANGED <<scenes, masterSceneName, quit, sceneLaunched, innerScene, innerThread,
                 config, reloadingConfig, objectDest, connected, cfgLock, waitResult,
                 quitSent, rl, ap,
                 envVars, passLog>>
  /\ UNCHANGED <<taskVars, iterVars, winVars>>

\* ---- the serialization block of world.cpp:84-116, thread by thread
\* world.cpp:86-87: serializedObjects and the vector of futures are created.
FanStart ==
  /\ mainpc = "serialize"
  /\ fan.phase = "idle"
  /\ fan' = [IdleFan EXCEPT !.phase = "launch", !.updates = [n \in DOMAIN objects |-> 0]]
  /\ serialized' = {}
  /\ UNCHANGED <<worldVars, cfgLock, mainpc, waitResult, quitSent, rl, ap, envVars, passLog,
                 taskVars, pace, unsent, save, winVars>>

\* world.cpp:87-113, the body of the loop up to the call of async for the next
\* object of the table: its distant name is put in serializedObjects; when
\* the name is in it already the loop goes on to the next object ("continue",
\* line 96), else the task of the object is started.
FanLaunch ==
  /\ mainpc = "serialize"
  /\ fan.phase = "launch"
  /\ DOMAIN objects \ fan.visited # {}
  /\ LET o == MinObj(DOMAIN objects \ fan.visited)
         d == DistantName(o)
     IN  fan' = IF d \in fan.keys
                THEN [fan EXCEPT !.visited = @ \cup {o}]
                ELSE [fan EXCEPT !.visited = @ \cup {o}, !.keys = @ \cup {d},
                                 !.launched = @ \cup {o}, !.running = @ \cup {o}]
  /\ UNCHANGED <<worldVars, cfgLock, loopVars, rl, ap, envVars, passLog, taskVars, pace, unsent, save, winVars>>

\* Mutant: the task serializes the buffer whether or not it was updated (the
\* test of world.cpp:105 is missing).
FanTaskUnconditional(o) ==
  /\ o \in fan.running
  /\ fan' = [fan EXCEPT !.running = @ \ {o}, !.updates[o] = @ + 1]
  /\ serialized' = serialized \cup {DistantName(o)}
  /\ objects' = [objects EXCEPT ![o].updated = FALSE]
  /\ UNCHANGED <<scenes, masterSceneName, quit, sceneLaunched, innerScene, innerThread,
                 config, reloadingConfig, objectDest, connected, cfgLock, mainpc, waitResult,
                 quitSent, rl, ap, envVars, passLog, taskVars, pace, unsent, save, winVars>>

\* world.cpp:98-113, the task of object o: update(); when the buffer was
\* updated it is serialized, the flag is cleared and the payload is stored
\* under the distant name.
FanTask(o) ==
  /\ o \in fan.running
  /\ fan' = [fan EXCEPT !.running = @ \ {o}, !.updates[o] = @ + 1]
  /\ IF objects[o].updated
     THEN /\ serialized' = serialized \cup {DistantName(o)}
          /\ objects' = [objects EXCEPT ![o].updated = FALSE]
     ELSE UNCHANGED <<serialized, objects>>
  /\ UNCHANGED <<scenes, masterSceneName, quit, sceneLaunched, innerScene, innerThread,
                 config, reloadingConfig, objectDest, connected, cfgLock, mainpc, waitResult,
                 quitSent, rl, ap, envVars, passLog, taskVars, pace, unsent, save, winVars>>

\* world.cpp:98-107, the task of object o up to the return of serialize():
\* update(), the test of wasUpdated(), and serialize(), which reads the
\* content of the buffer; setNotUpdated() is a later call (FanTaskClear). A
\* buffer that was not updated ends the task.
FanTaskRead(o) ==
  /\ o \in fan.running \ fan.clearing
  /\ IF objects[o].updated
     THEN /\ fan' = [fan EXCEPT !.clearing = @ \cup {o}, !.updates[o] = @ + 1]
          /\ unsent' = unsent \ {o}
     ELSE /\ fan' = [fan EXCEPT !.running = @ \ {o}, !.updates[o] = @ + 1]
          /\ unsent' = unsent
  /\ UNCHANGED <<worldVars, cfgLock, loopVars, rl, ap, envVars, passLog, taskVars, pace, save, winVars>>

\* world.cpp:108-110, the end of the task of object o: setNotUpdated() and
\* the payload stored under the distant name.
FanTaskClear(o) ==
  /\ o \in fan.clearing
  /\ fan' = [fan EXCEPT !.running = @ \ {o}, !.clearing = @ \ {o}]
  /\ objects' = [objects EXCEPT ![o].updated = FALSE]
  /\ serialized' = serialized \cup {DistantName(o)}
  /\ UNCHANGED <<scenes, masterSceneName, quit, sceneLaunched, innerScene, innerThread,
                 config, reloadingConfig, objectDest, connected, cfgLock, mainpc, waitResult,
                 quitSent, rl, ap, envVars, passLog, taskVars, pace, unsent, save, winVars>>

\* Mutant: the futures are not waited for at the end of the block.
FanJoinNoWait ==
  /\ mainpc = "serialize"
  /\ fan.phase = "launch"
  /\ fan.visited = DOMAIN objects
  /\ fan' = [fan EXCEPT !.phase = "idle"]
  /\ mainpc' = "wait"
  /\ UNCHANGED <<worldVars, cfgLock, serialized, waitResult, quitSent, rl, ap, envVars,
                 passLog, taskVars, pace, unsent, save, winVars>>

\* world.cpp:115: the vector of futures goes out of scope; the destructor of a
\* future returned by std::async blocks until its task has ended.
FanJoin ==
  /\ mainpc = "serialize"
  /\ fan.phase = "launch"
  /\ fan.visited = DOMAIN objects
  /\ fan.running = {}
  /\ fan' = [fan EXCEPT !.phase = "idle"]
  /\ mainpc' = "wait"
  /\ UNCHANGED <<worldVars, cfgLock, serialized, waitResult, quitSent, rl, ap, envVars,
                 passLog, taskVars, pace, unsent, save, winVars>>

\* Link::waitForBufferSending(1 s): returns once no payload is in flight, or
\* when the maximum wait has elapsed with one still in flight.
WaitForBufferSending(result) ==
  IF \A n \in BufferNames : ~inFlight[n] THEN result = "drained" ELSE result = "timeout"

\* Mutant: the wait for pending sends has no maximum: it returns only once
\* every payload has been transmitted.
LoopWaitNoTimeout ==
  /\ mainpc = "wait"
  /\ \A n \in BufferNames : ~inFlight[n]
  /\ waitResult' = "drained"
  /\ mainpc' = "dispatch"
  /\ UNCHANGED <<worldVars, cfgLock, serialized, quitSent, rl, ap, envVars, passLog>>
  /\ UNCHANGED <<taskVars, iterVars, winVars>>

\* world.cpp:119: the result of the wait is not looked at.
LoopWait ==
  /\ mainpc = "wait"
  /\ \E r \in {"drained", "timeout"} : WaitForBufferSending(r) /\ waitResult' = r
  /\ mainpc' = "dispatch"
  /\ UNCHANGED <<worldVars, cfgLock, serialized, quitSent, rl, ap, envVars, passLog>>
  /\ UNCHANGED <<taskVars, iterVars, winVars>>

\* Link::sendBuffer(name, payload): the payload is in flight; a newer payload
\* for the same name supersedes the earlier one.
SendBuffer(fl, names) == [n \in BufferNames |-> fl[n] \/ n \in names]

\* world.cpp:124-126
LoopDispatch ==
  /\ mainpc = "dispatch"
  /\ inFlight' = SendBuffer(inFlight, serialized)
  /\ serialized' = {}
  /\ waitResult' = "none"
  /\ mainpc' = "attribs"
  /\ UNCHANGED <<worldVars, cfgLock, quitSent, rl, ap, procs,
                 passLog>>
  /\ UNCHANGED <<taskVars, iterVars, winVars>>

\* Mutant: the iteration goes from the attributes to the shutdown check; the
\* telemetry step of world.cpp:139-155 is left out.
LoopAttribsSkipTelemetry ==
  /\ mainpc = "attribs"
  /\ mainpc' = "check"
  /\ UNCHANGED <<worldVars, cfgLock, serialized, waitResult, quitSent, rl, ap, envVars, passLog>>
  /\ UNCHANGED <<taskVars, iterVars, winVars>>

\* world.cpp:130-137
LoopAttribs ==
  /\ mainpc = "attribs"
  /\ mainpc' = "telemetry"
  /\ UNCHANGED <<worldVars, cfgLock, serialized, waitResult, quitSent, rl, ap, envVars, passLog>>
  /\ UNCHANGED <<taskVars, iterVars, winVars>>

\* Mutant: the test of world.cpp:140 is missing: the timings, the clock and
\* the logs are sent in every iteration.
LoopTelemetryAlways ==
  /\ mainpc = "telemetry"
  /\ scenes' = IF masterSceneName \in DOMAIN scenes THEN scenes
               ELSE (masterSceneName :> 0) @@ scenes
  /\ mainpc' = "relay"
  /\ UNCHANGED <<masterSceneName, quit, sceneLaunched, innerScene, innerThread, config,
                 reloadingConfig, objects, objectDest, connected, cfgLock, serialized,
                 waitResult, quitSent, rl, ap, envVars, passLog>>
  /\ UNCHANGED <<taskVars, iterVars, winVars>>

\* world.cpp:140: the test _scenes[_masterSceneName] != -1; operator[] creates
\* the entry, with value 0, when the table has none under that name.
LoopTelemetry ==
  /\ mainpc = "telemetry"
  /\ scenes' = IF masterSceneName \in DOMAIN scenes THEN scenes
               ELSE (masterSceneName :> 0) @@ scenes
  /\ mainpc' = IF scenes'[masterSceneName] # -1 THEN "relay" ELSE "check"
  /\ UNCHANGED <<masterSceneName, quit, sceneLaunched, innerScene, innerThread, config,
                 reloadingConfig, objects, objectDest, connected, cfgLock, serialized,
                 waitResult, quitSent, rl, ap, envVars, passLog>>
  /\ UNCHANGED <<taskVars, iterVars, winVars>>

\* world.cpp:142-154: the timings, the master clock and the new log lines are
\* sent to _masterSceneName.
LoopRelay ==
  /\ mainpc = "relay"
  /\ mainpc' = "check"
  /\ UNCHANGED <<worldVars, cfgLock, serialized, waitResult, quitSent, rl, ap, envVars, passLog>>
  /\ UNCHANGED <<taskVars, iterVars, winVars>>

\* Mutant: the loop breaks on _quit without the broadcast of world.cpp:159-160.
LoopQuitNoBroadcast ==
  /\ mainpc = "check"
  /\ quit
  /\ mainpc' = "exited"
  /\ cfgLock' = "free"
  /\ UNCHANGED <<worldVars, serialized, waitResult, quitSent, rl, ap, envVars, passLog>>
  /\ UNCHANGED <<taskVars, iterVars, winVars>>

\* Mutant: "quit" is broadcast but the "break" of world.cpp:161 is missing, so
\* the iteration goes on to its pacing wait.
LoopQuitNoBreak ==
  /\ mainpc = "check"
  /\ quit
  /\ quitSent' = DOMAIN scenes
  /\ procs' = QuitProcs(DOMAIN scenes)
  /\ innerThread' = QuitInner(DOMAIN scenes)
  /\ mainpc' = "pace"
  /\ UNCHANGED <<scenes, masterSceneName, quit, sceneLaunched, innerScene, config,
                 reloadingConfig, objects, objectDest, connected, cfgLock, serialized,
                 waitResult, rl, ap, inFlight, passLog>>
  /\ UNCHANGED <<taskVars, iterVars, winVars>>

\* world.cpp:157-162: "quit" to every worker of the table, then break; the
\* lock_guard of the iteration releases the lock.
LoopQuit ==
  /\ mainpc = "check"
  /\ quit
  /\ quitSent' = DOMAIN scenes
  /\ procs' = QuitProcs(DOMAIN scenes)
  /\ innerThread' = QuitInner(DOMAIN scenes)
  /\ mainpc' = "exited"
  /\ cfgLock' = "free"
  /\ UNCHANGED <<scenes, masterSceneName, quit, sceneLaunched, innerScene, config,
                 reloadingConfig, objects, objectDest, connected, serialized, waitResult,
                 rl, ap, inFlight, passLog>>
  /\ UNCHANGED <<taskVars, iterVars, winVars>>

LoopGoOn ==
  /\ mainpc = "check"
  /\ ~quit
  /\ mainpc' = "pace"
  /\ UNCHANGED <<worldVars, cfgLock, serialized, waitResult, quitSent, rl, ap, envVars, passLog>>
  /\ UNCHANGED <<taskVars, iterVars, winVars>>

\* world.cpp:164-171: the pacing wait, then the end of the iteration body
\* releases the lock.
LoopPace ==
  /\ mainpc = "pace"
  /\ mainpc' = "loop"
  /\ cfgLock' = "free"
  /\ UNCHANGED <<worldVars, serialized, waitResult, quitSent, rl, ap, envVars,
                 passLog>>
  /\ UNCHANGED <<taskVars, iterVars, winVars>>

\* ------------------------------------------------------------ the pacing
\* The arguments the "framerate" attribute is given
FramerateArgs == {-5, 0, 1, 24, 25, 30, 50, 60}
Max(a, b) == IF a >= b THEN a ELSE b

\* Mutant: the argument is stored as it is (no std::max).
FramerateMsgNoMax(arg) ==
  /\ pace' = [NoPace EXCEPT !.framerate = arg]
  /\ UNCHANGED <<worldVars, cfgLock, loopVars, rl, ap, envVars, passLog, taskVars, fan, unsent, save, winVars>>

\* world.cpp:1499: _worldFramerate = std::max(1, arg)
FramerateMsg(arg) ==
  /\ pace' = [NoPace EXCEPT !.framerate = Max(1, arg)]
  /\ UNCHANGED <<worldVars, cfgLock, loopVars, rl, ap, envVars, passLog, taskVars, fan, unsent, save, winVars>>

\* The frame interval in microseconds, fraction dropped
Interval(f) == 1000000 \div f
\* world.cpp:167: 1e6 / (float)_worldFramerate - elapsed, a floating point
\* value, truncated towards zero when it is converted to an integer.
Remaining(f, e) ==
  IF e <= Interval(f) THEN Interval(f) - e
  ELSE (IF 1000000 % f = 0 THEN Interval(f) ELSE Interval(f) + 1) - e

\* The elapsed times of an iteration, in microseconds, tried for framerate f
ElapsedSamples(f) ==
  {0, 1, Interval(f) \div 2, Interval(f) - 1, Interval(f), Interval(f) + 1, Interval(f) + 2,
   2 * Interval(f), 3 * Interval(f)}

\* RootObject::waitSignalBufferObjectUpdated(timeout in microseconds) receives
\* the value. A negative value is passed on as it is to a signed parameter; its
\* conversion to an unsigned parameter is undefined: the builds wrap it to
\* 2^64 + r ("wrapped", us = -r) or saturate it to 0.
WaitArgs(r) ==
  IF r >= 0 THEN {[kind |-> "us", us |-> r]}
  ELSE {[kind |-> "us", us |-> r], [kind |-> "wrapped", us |-> 0 - r], [kind |-> "us", us |-> 0]}

\* world.cpp:165-167: the elapsed time of the iteration is read and the wait
\* for a buffer update is called with what is left of the frame interval.
LoopPaceWait(e) ==
  /\ pace.framerate >= 1
  /\ \E w \in WaitArgs(Remaining(pace.framerate, e)) :
       pace' = [pace EXCEPT !.elapsed = e, !.wait = w]
  /\ UNCHANGED <<worldVars, cfgLock, loopVars, rl, ap, envVars, passLog, taskVars, fan, unsent, save, winVars>>

\* world.cpp:44-51: the destructor joins the inner Scene's thread; the members
\* (the worker table among them) are destroyed after it, and the process ends,
\* which ends a reload thread still at work with it.
Destructor ==
  /\ mainpc = "exited"
  /\ innerThread \in {"none", "exited"}
  /\ innerThread' = "none"
  /\ scenes' = EmptyMap
  /\ mainpc' = "destroyed"
  /\ ap' = IdleAp
  /\ rl' = IdleRl
  /\ passLog' = {}
  /\ cfgLock' = "free"
  /\ UNCHANGED <<masterSceneName, quit, sceneLaunched, innerScene, config, reloadingConfig,
                 objects, objectDest, connected, serialized, waitResult, quitSent,
                 envVars>>
  /\ UNCHANGED <<taskVars, iterVars, winVars>>

LoopStep ==
  \/ LoopLock \/ LoopRunTasks \/ LoopSerialize \/ LoopWait \/ LoopDispatch
  \/ LoopAttribs \/ LoopTelemetry \/ LoopRelay \/ LoopQuit \/ LoopGoOn \/ LoopPace

\* --------------------- saveConfig, saveProject, getObjectsNameByType
\* The functions that read the answer of a request
SaveOps == {"saveConfig", "saveProject", "getObjectsNameByType"}
\* The workers the function asks: every worker of the table (world.cpp:614,
\* 710), or the master alone (783).
SaveTargets(op) == IF op = "getObjectsNameByType" THEN {masterSceneName} ELSE DOMAIN scenes

\* The Values that sendMessageWithAnswer returns: the name of the sender, the
\* attribute and the value asked for, or nothing when the timeout elapsed.
Answer(w, op, answered) == IF answered THEN << w, op, "value" >> ELSE << >>

\* answer[2] (world.cpp:625, 717, 784), the third element of the Values. With
\* fewer than three elements operator[] reads outside the container, which is
\* undefined: the read gives some value or ends the process.
ReadElement2(answer) ==
  IF Len(answer) >= 3 THEN {[kind |-> "value", v |-> answer[3]]}
  ELSE {[kind |-> "garbage", v |-> "?"], [kind |-> "crash", v |-> "?"]}

\* world.cpp:1721-1724, 1732-1735, 1069-1076: the task that runTasks is
\* running calls saveConfig, saveProject or getObjectsNameByType.
SaveBegin(op) ==
  /\ mainpc = "tasks"
  /\ save.pc = "idle"
  /\ save' = [IdleSave EXCEPT !.pc = "asking", !.op = op]
  /\ UNCHANGED <<worldVars, cfgLock, loopVars, rl, ap, envVars, passLog, taskVars, fan, pace,
                 unsent, winVars>>

\* world.cpp:621-625, 713-717, 783-784: the request to the next worker and
\* the read of element 2 of its answer.
SaveAsk(answered) ==
  /\ save.pc = "asking"
  /\ SaveTargets(save.op) \ save.asked # {}
  /\ LET w == MinKey(SaveTargets(save.op) \ save.asked)
     IN  /\ SendMessageWithAnswer(w, answered)
         /\ \E r \in ReadElement2(Answer(w, save.op, answered)) :
               save' = [save EXCEPT
                          !.asked = @ \cup {w},
                          !.read = IF r.kind \in {"value", "garbage"} THEN @ \cup {w} ELSE @,
                          !.missing = IF r.kind \in {"garbage", "crash"} THEN @ \cup {w} ELSE @,
                          !.pc = IF r.kind = "crash" THEN "crashed" ELSE @]
  /\ UNCHANGED <<worldVars, cfgLock, loopVars, rl, ap, envVars, passLog, taskVars, fan, pace,
                 unsent, winVars>>

\* The function returns to the task when every worker has been asked.
SaveReturn ==
  /\ save.pc = "asking"
  /\ SaveTargets(save.op) \ save.asked = {}
  /\ save' = [save EXCEPT !.pc = "idle"]
  /\ UNCHANGED <<worldVars, cfgLock, loopVars, rl, ap, envVars, passLog, taskVars, fan, pace,
                 unsent, winVars>>

\* ------------------------------------------------------------- Window
\* The windows GLFW reports events for
Windows == {"winA", "winB"}
\* The arguments GLFW gives to the callbacks: <<key, scancode, action, mods>>,
\* <<button, action, mods>>, <<xoffset, yoffset>>, and positions <<x, y>> in
\* half pixels (a double with a fraction of 0 or 0.5).
KeyEvents == {<< 65, 38, 1, 0 >>, << 66, 56, 0, 1 >>}
MouseBtnEvents == {<< 0, 1, 0 >>, << 1, 0, 2 >>}
ScrollEvents == {<< 0, -1 >>, << 0, 1 >>}
PosEvents == {<< 21, 40 >>, << -3, 7 >>}
EventsMade ==
  Len(recorded.keys) + Len(recorded.mouseBtn) + Len(recorded.scroll) + Len(recorded.mousePos)
\* (int) of a double given in half pixels: the fraction is dropped, towards zero
ToInt(h) == IF h >= 0 THEN h \div 2 ELSE 0 - ((0 - h) \div 2)

\* What getKeys hands out of a queued key event: keys[0], keys[2], keys[3]
\* (window.cpp:75-80); the scancode is not handed out.
KeyOut(e) == [win |-> e.win, a |-> e.v[1], b |-> e.v[3], c |-> e.v[4]]
\* window.cpp:94-99: mouse[0], mouse[1], mouse[2]
MouseBtnOut(e) == [win |-> e.win, a |-> e.v[1], b |-> e.v[2], c |-> e.v[3]]
\* window.cpp:125-127
ScrollOut(e) == [win |-> e.win, a |-> e.v[1], b |-> e.v[2]]
\* window.cpp:113-115
PosOut(e) == [win |-> e.win, a |-> ToInt(e.v[1]), b |-> ToInt(e.v[2])]

RECURSIVE MapSeq(_, _)
MapSeq(q, kind) ==
  IF q = << >> THEN << >>
  ELSE << CASE kind = "keys" -> KeyOut(Head(q))
            [] kind = "mouseBtn" -> MouseBtnOut(Head(q))
            [] OTHER -> ScrollOut(Head(q)) >> \o MapSeq(Tail(q), kind)

\* Mutant: the event is put at the front of the queue.
KeyCallbackPushFront(win, v) ==
  /\ EventsMade < MaxEvents
  /\ queues' = [queues EXCEPT !.keys = << [win |-> win, v |-> v] >> \o @]
  /\ recorded' = [recorded EXCEPT !.keys = Append(@, [win |-> win, v |-> v])]
  /\ UNCHANGED <<worldVars, cfgLock, loopVars, rl, ap, envVars, passLog, taskVars, iterVars,
                 reader>>

\* window.cpp:299-304
KeyCallback(win, v) ==
  /\ EventsMade < MaxEvents
  /\ queues' = [queues EXCEPT !.keys = Append(@, [win |-> win, v |-> v])]
  /\ recorded' = [recorded EXCEPT !.keys = Append(@, [win |-> win, v |-> v])]
  /\ UNCHANGED <<worldVars, cfgLock, loopVars, rl, ap, envVars, passLog, taskVars, iterVars,
                 reader>>

\* window.cpp:307-312
MouseBtnCallback(win, v) ==
  /\ EventsMade < MaxEvents
  /\ queues' = [queues EXCEPT !.mouseBtn = Append(@, [win |-> win, v |-> v])]
  /\ recorded' = [recorded EXCEPT !.mouseBtn = Append(@, [win |-> win, v |-> v])]
  /\ UNCHANGED <<worldVars, cfgLock, loopVars, rl, ap, envVars, passLog, taskVars, iterVars,
                 reader>>

\* window.cpp:315-321: the position replaces the one stored.
MousePosCallback(win, v) ==
  /\ EventsMade < MaxEvents
  /\ queues' = [queues EXCEPT !.mousePos = << [win |-> win, v |-> v] >>]
  /\ recorded' = [recorded EXCEPT !.mousePos = Append(@, [win |-> win, v |-> v])]
  /\ UNCHANGED <<worldVars, cfgLock, loopVars, rl, ap, envVars, passLog, taskVars, iterVars,
                 reader>>

\* window.cpp:324-329
ScrollCallback(win, v) ==
  /\ EventsMade < MaxEvents
  /\ queues' = [queues EXCEPT !.scroll = Append(@, [win |-> win, v |-> v])]
  /\ recorded' = [recorded EXCEPT !.scroll = Append(@, [win |-> win, v |-> v])]
  /\ UNCHANGED <<worldVars, cfgLock, loopVars, rl, ap, envVars, passLog, taskVars, iterVars,
                 reader>>

\* window.cpp:69-85: 0 and nothing else on an empty queue; else the front
\* event is copied to the output arguments and popped, and the size the queue
\* had is returned.
GetKeys ==
  /\ IF queues.keys = << >>
     THEN /\ reader' = [reader EXCEPT !.keys.ret = 0]
          /\ queues' = queues
     ELSE /\ reader' = [reader EXCEPT !.keys = [ret |-> Len(Tail(queues.keys)) + 1,
                                                 args |-> KeyOut(Head(queues.keys))],
                                      !.got.keys = Append(@, KeyOut(Head(queues.keys)))]
          /\ queues' = [queues EXCEPT !.keys = Tail(@)]
  /\ UNCHANGED <<worldVars, cfgLock, loopVars, rl, ap, envVars, passLog, taskVars, iterVars,
                 recorded>>

\* window.cpp:88-104
GetMouseBtn ==
  /\ IF queues.mouseBtn = << >>
     THEN /\ reader' = [reader EXCEPT !.mouseBtn.ret = 0]
          /\ queues' = queues
     ELSE /\ reader' = [reader EXCEPT !.mouseBtn = [ret |-> Len(Tail(queues.mouseBtn)) + 1,
                                                     args |-> MouseBtnOut(Head(queues.mouseBtn))],
                                      !.got.mouseBtn = Append(@, MouseBtnOut(Head(queues.mouseBtn)))]
          /\ queues' = [queues EXCEPT !.mouseBtn = Tail(@)]
  /\ UNCHANGED <<worldVars, cfgLock, loopVars, rl, ap, envVars, passLog, taskVars, iterVars,
                 recorded>>

\* window.cpp:107-116: nothing is handed out before the first position.
GetMousePos ==
  /\ reader' = IF Len(queues.mousePos) = 1 /\ Len(queues.mousePos[1].v) = 2
               THEN [reader EXCEPT !.mousePos = PosOut(queues.mousePos[1])]
               ELSE reader
  /\ UNCHANGED <<worldVars, cfgLock, loopVars, rl, ap, envVars, passLog, taskVars, iterVars,
                 queues, recorded>>

\* window.cpp:119-132
GetScroll ==
  /\ IF queues.scroll = << >>
     THEN /\ reader' = [reader EXCEPT !.scroll.ret = 0]
          /\ queues' = queues
     ELSE /\ reader' = [reader EXCEPT !.scroll = [ret |-> Len(Tail(queues.scroll)) + 1,
                                                   args |-> ScrollOut(Head(queues.scroll))],
                                      !.got.scroll = Append(@, ScrollOut(Head(queues.scroll)))]
          /\ queues' = [queues EXCEPT !.scroll = Tail(@)]
  /\ UNCHANGED <<worldVars, cfgLock, loopVars, rl, ap, envVars, passLog, taskVars, iterVars,
                 recorded>>

\* The callbacks and the readers hold _callbackMutex from their first line to
\* their last: each is one step, in any order.
NextWindow ==
  \/ \E w \in Windows, v \in KeyEvents : KeyCallback(w, v)
  \/ \E w \in Windows, v \in MouseBtnEvents : MouseBtnCallback(w, v)
  \/ \E w \in Windows, v \in PosEvents : MousePosCallback(w, v)
  \/ \E w \in Windows, v \in ScrollEvents : ScrollCallback(w, v)
  \/ GetKeys \/ GetMouseBtn \/ GetMousePos \/ GetScroll

\* window.cpp:22-26: the static members as they are defined, before any event
InitWindow == InitFrom({1})

SpecWindow == InitWindow /\ [][NextWindow]_vars

\* ------------------------------------------- the "loadConfig" attribute
\* world.cpp:1576-1581: the handler starts the asynchronous task; a file that
\* does not load (valid = FALSE) ends it at once. Requests come from a Scene or
\* a controller, none of which is connected before World::run has begun or
\* after it has returned.
LoadConfigMsg(d, valid) ==
  /\ mainpc \notin {"init", "exited", "destroyed"}
  /\ rl.pc = "idle"
  /\ rl' = IF valid THEN [IdleRl EXCEPT !.pc = "teardown", !.doc = d] ELSE rl
  /\ UNCHANGED <<worldVars, cfgLock, loopVars, ap, envVars, passLog>>
  /\ UNCHANGED <<taskVars, iterVars, winVars>>

\* world.cpp:1578-1580: the handler starts the asynchronous task, which is
\* about to load the file; valid tells whether the file opens, parses and
\* carries the description tag (World::loadConfig, world.cpp:998-1010).
LoadConfigBegin(d, valid) ==
  /\ mainpc \notin {"init", "exited", "destroyed"}
  /\ rl.pc = "idle"
  /\ rl' = [IdleRl EXCEPT !.pc = "loading", !.doc = d, !.valid = valid]
  /\ UNCHANGED <<worldVars, cfgLock, loopVars, ap, envVars, passLog>>
  /\ UNCHANGED <<taskVars, iterVars, winVars>>

\* Mutant: the task does not look at the result of loadConfig (the test of
\* world.cpp:1581 is missing) and goes on to the teardown.
LoadConfigUnchecked ==
  /\ Alive
  /\ rl.pc = "loading"
  /\ ~rl.valid
  /\ rl' = [rl EXCEPT !.pc = "teardown"]
  /\ UNCHANGED <<worldVars, cfgLock, loopVars, ap, envVars, passLog>>
  /\ UNCHANGED <<taskVars, iterVars, winVars>>

\* world.cpp:1581 with loadConfig returning false (world.cpp:1000-1004): the
\* task ends; the document it read is the local "config" of line 1580.
LoadConfigFailed ==
  /\ Alive
  /\ rl.pc = "loading"
  /\ ~rl.valid
  /\ rl' = IdleRl
  /\ UNCHANGED <<worldVars, cfgLock, loopVars, ap, envVars, passLog>>
  /\ UNCHANGED <<taskVars, iterVars, winVars>>

\* world.cpp:1581 with loadConfig returning true: the teardown begins.
LoadConfigLoaded ==
  /\ Alive
  /\ rl.pc = "loading"
  /\ rl.valid
  /\ rl' = [rl EXCEPT !.pc = "teardown"]
  /\ UNCHANGED <<worldVars, cfgLock, loopVars, ap, envVars, passLog>>
  /\ UNCHANGED <<taskVars, iterVars, winVars>>

\* The keys the range-for of world.cpp:1583 has still to visit.
KeysLeft == IF rl.cur = NoScene THEN DOMAIN scenes
            ELSE {k \in DOMAIN scenes : Rank(k) > Rank(rl.cur)}

\* world.cpp:1585-1586
ReloadQuit ==
  /\ Alive
  /\ rl.pc = "teardown"
  /\ KeysLeft # {}
  /\ LET s == MinKey(KeysLeft)
     IN  /\ procs' = QuitProcs({s})
         /\ innerThread' = QuitInner({s})
         /\ connected' = connected \ {s}
         /\ rl' = [rl EXCEPT !.pc = "reap", !.cur = s]
  /\ UNCHANGED <<scenes, masterSceneName, quit, sceneLaunched, innerScene, config,
                 reloadingConfig, objects, objectDest, cfgLock, loopVars, ap, inFlight,
                 passLog>>
  /\ UNCHANGED <<taskVars, iterVars, winVars>>

\* world.cpp:1587-1590: waitpid(pid, nullptr, 0) returns once the child has
\* ended, or at once when there is no such child. pid = 0 waits for any child.
ReloadWaitpid ==
  /\ Alive
  /\ rl.pc = "reap"
  /\ scenes[rl.cur] # -1
  /\ LET pid == scenes[rl.cur]
         children == {p \in Pids : procs[p].st \in {"starting", "ready", "exited"}}
     IN  IF pid \in Pids
         THEN IF procs[pid].st \in {"starting", "ready"} THEN FALSE
              ELSE procs' = [procs EXCEPT ![pid].st =
                               IF @ = "exited" THEN "reaped" ELSE @]
         ELSE IF children = {} THEN procs' = procs
              ELSE \E p \in children : /\ procs[p].st = "exited"
                                       /\ procs' = [procs EXCEPT ![p].st = "reaped"]
  /\ rl' = [rl EXCEPT !.pc = "teardown"]
  /\ UNCHANGED <<worldVars, cfgLock, loopVars, ap, inFlight, passLog>>
  /\ UNCHANGED <<taskVars, iterVars, winVars>>

\* world.cpp:1591-1596: a worker recorded with -1 is taken for the inner Scene.
ReloadJoinInner ==
  /\ Alive
  /\ rl.pc = "reap"
  /\ scenes[rl.cur] = -1
  /\ innerThread \in {"none", "exited"}
  /\ innerThread' = "none"
  /\ innerScene' = NoScene
  /\ rl' = [rl EXCEPT !.pc = "teardown"]
  /\ UNCHANGED <<scenes, masterSceneName, quit, sceneLaunched, config, reloadingConfig,
                 objects, objectDest, connected, cfgLock, loopVars, ap, envVars,
                 passLog>>
  /\ UNCHANGED <<taskVars, iterVars, winVars>>

\* Mutant: the task takes the configuration lock itself before it calls
\* applyConfig, which takes it again.
ReloadFinishLocked ==
  /\ Alive
  /\ rl.pc = "teardown"
  /\ KeysLeft = {}
  /\ cfgLock = "free"
  /\ cfgLock' = "reload"
  /\ masterSceneName' = NoName
  /\ config' = rl.doc
  /\ reloadingConfig' = TRUE
  /\ rl' = [rl EXCEPT !.pc = "callApply"]
  /\ UNCHANGED <<scenes, quit, sceneLaunched, innerScene, innerThread, objects, objectDest,
                 connected, loopVars, ap, envVars, passLog>>
  /\ UNCHANGED <<taskVars, iterVars, winVars>>

\* world.cpp:1599-1602, then the call of applyConfig (ApplyBegin("reload")).
ReloadFinish ==
  /\ Alive
  /\ rl.pc = "teardown"
  /\ KeysLeft = {}
  /\ masterSceneName' = NoName
  /\ config' = rl.doc
  /\ reloadingConfig' = TRUE
  /\ rl' = [rl EXCEPT !.pc = "callApply"]
  /\ UNCHANGED <<scenes, quit, sceneLaunched, innerScene, innerThread, objects, objectDest,
                 connected, cfgLock, loopVars, ap, envVars, passLog>>
  /\ UNCHANGED <<taskVars, iterVars, winVars>>

ReloadStep == ReloadQuit \/ ReloadWaitpid \/ ReloadJoinInner \/ ReloadFinish

\* ------------------------------------------------- handlers and signals
\* world.cpp:1418-1423: "sceneLaunched", sent by the spawned process p once it runs.
SceneLaunchedFromProcess(p) ==
  /\ procs[p].st = "starting"
  /\ procs' = [procs EXCEPT ![p].st = "ready"]
  /\ sceneLaunched' = TRUE
  /\ UNCHANGED <<scenes, masterSceneName, quit, innerScene, innerThread, config,
                 reloadingConfig, objects, objectDest, connected, cfgLock, loopVars, rl, ap,
                 inFlight, passLog>>
  /\ UNCHANGED <<taskVars, iterVars, winVars>>

\* world.cpp:1418-1423: "sceneLaunched", sent by the inner Scene.
SceneLaunchedFromInner ==
  /\ innerThread = "starting"
  /\ innerThread' = "ready"
  /\ sceneLaunched' = TRUE
  /\ UNCHANGED <<scenes, masterSceneName, quit, innerScene, config, reloadingConfig,
                 objects, objectDest, connected, cfgLock, loopVars, rl, ap, envVars,
                 passLog>>
  /\ UNCHANGED <<taskVars, iterVars, winVars>>

\* world.cpp:817-821: SIGINT / SIGTERM
Leave ==
  /\ ~quit
  /\ mainpc \notin {"exited", "destroyed"}
  /\ quit' = TRUE
  /\ UNCHANGED <<scenes, masterSceneName, sceneLaunched, innerScene, innerThread, config,
                 reloadingConfig, objects, objectDest, connected, cfgLock, loopVars, rl, ap,
                 envVars, passLog>>
  /\ UNCHANGED <<taskVars, iterVars, winVars>>

\* world.cpp:1655-1659: the "quit" attribute.
QuitMsg ==
  /\ ~quit
  /\ mainpc \notin {"init", "exited", "destroyed"}
  /\ quit' = TRUE
  /\ UNCHANGED <<scenes, masterSceneName, sceneLaunched, innerScene, innerThread, config,
                 reloadingConfig, objects, objectDest, connected, cfgLock, loopVars, rl, ap,
                 envVars, passLog>>
  /\ UNCHANGED <<taskVars, iterVars, winVars>>

\* world.cpp:788-791: a buffer received by the World is forwarded at once.
HandleSerializedObject(n) ==
  /\ mainpc \notin {"init", "exited", "destroyed"}
  /\ inFlight' = SendBuffer(inFlight, {n})
  /\ UNCHANGED <<worldVars, cfgLock, loopVars, rl, ap, procs, passLog>>
  /\ UNCHANGED <<taskVars, iterVars, winVars>>

\* ----------------------------------------------- messages that queue tasks
\* The message thread handles requests while World::run is at work. A handler
\* touches the task queue and the recurring tasks only, which the loop reads in
\* runTasks only: when it runs matters relative to runTasks alone, so it is
\* taken between two iterations or while the serialization block runs.
MsgOpen == mainpc \in {"loop", "serialize"}

\* Frame of a handler that only queues tasks.
OnlyQueues ==
  UNCHANGED <<worldVars, cfgLock, loopVars, rl, ap, envVars, passLog, recurring, executed,
              invoked, iterVars, winVars>>

\* world.cpp:1387-1415: "addObject" queues the task that adds the object.
AddObjectMsg(type, name) ==
  /\ MsgOpen
  /\ nextId <= MaxTasks
  /\ taskQueue' = AddTask(taskQueue, nextId, "add", type, name)
  /\ nextId' = nextId + 1
  /\ OnlyQueues

\* Mutant: the handler of "deleteObject" erases the entries itself, in the
\* thread that receives the message.
DeleteObjectNow(name) ==
  /\ MsgOpen
  /\ nextId <= MaxTasks
  /\ objects' = Without(objects, name)
  /\ objectDest' = Without(objectDest, name)
  /\ nextId' = nextId + 1
  /\ UNCHANGED <<scenes, masterSceneName, quit, sceneLaunched, innerScene, innerThread,
                 config, reloadingConfig, connected, cfgLock, loopVars, rl, ap, envVars,
                 passLog, taskQueue, recurring, executed, invoked, iterVars, winVars>>

\* world.cpp:1426-1448: "deleteObject" queues the task that deletes it.
DeleteObjectMsg(name) ==
  /\ MsgOpen
  /\ nextId <= MaxTasks
  /\ taskQueue' = AddTask(taskQueue, nextId, "delete", name, name)
  /\ nextId' = nextId + 1
  /\ OnlyQueues

\* world.cpp:1661-1693: "renameObject" queues the task that renames it.
RenameObjectMsg(name, newName) ==
  /\ MsgOpen
  /\ nextId <= MaxTasks
  /\ taskQueue' = AddTask(taskQueue, nextId, "rename", name, newName)
  /\ nextId' = nextId + 1
  /\ OnlyQueues

\* Mutant: the object is added before the old one is deleted.
ReplaceObjectAddFirst(objName, objType) ==
  /\ MsgOpen
  /\ objType \in LocalTypes
  /\ nextId + 2 <= MaxTasks
  /\ taskQueue' = AddTask(AddTask(AddTask(taskQueue, nextId, "add", objType, objName),
                                  nextId + 1, "delete", objName, objName),
                          nextId + 2, "link", objName, objName)
  /\ nextId' = nextId + 3
  /\ OnlyQueues

\* world.cpp:1695-1715: "replaceObject" of a creatable type sets "deleteObject"
\* and "addObject", each of which queues its task, then queues the task that
\* links the new object.
ReplaceObjectMsg(objName, objType) ==
  /\ MsgOpen
  /\ objType \in LocalTypes
  /\ nextId + 2 <= MaxTasks
  /\ taskQueue' = AddTask(AddTask(AddTask(taskQueue, nextId, "delete", objName, objName),
                                  nextId + 1, "add", objType, objName),
                          nextId + 2, "link", objName, objName)
  /\ nextId' = nextId + 3
  /\ OnlyQueues

\* RootObject::addRecurringTask, removeRecurringTask: a recurring task is known
\* by its name; removing a name that is not registered changes nothing.
AddRecurringTask(r, name) == r \cup {name}
RemoveRecurringTask(r, name) == r \ {name}

\* world.cpp:1811-1837: "pingTest"
PingTestMsg(doPing) ==
  /\ MsgOpen
  /\ recurring' = IF doPing # 0 THEN AddRecurringTask(recurring, "pingTest")
                  ELSE RemoveRecurringTask(recurring, "pingTest")
  /\ UNCHANGED <<worldVars, cfgLock, loopVars, rl, ap, envVars, passLog, taskQueue, nextId,
                 executed, invoked, iterVars, winVars>>

\* Mutant: switching the test off queues the task that tells the Scenes but
\* the call of removeRecurringTask is missing.
SwapTestNoRemove(v) ==
  /\ MsgOpen
  /\ IF v # 0
     THEN /\ recurring' = AddRecurringTask(recurring, "swapTest")
          /\ UNCHANGED <<taskQueue, nextId>>
     ELSE /\ nextId <= MaxTasks
          /\ recurring' = recurring
          /\ taskQueue' = AddTask(taskQueue, nextId, "swapOff", "", "")
          /\ nextId' = nextId + 1
  /\ UNCHANGED <<worldVars, cfgLock, loopVars, rl, ap, envVars, passLog, executed, invoked,
                 iterVars, winVars>>

\* world.cpp:1839-1875: "swapTest"; switching it off also queues the task that
\* tells the Scenes.
SwapTestMsg(v) ==
  /\ MsgOpen
  /\ IF v # 0
     THEN /\ recurring' = AddRecurringTask(recurring, "swapTest")
          /\ UNCHANGED <<taskQueue, nextId>>
     ELSE /\ nextId <= MaxTasks
          /\ recurring' = RemoveRecurringTask(recurring, "swapTest")
          /\ taskQueue' = AddTask(taskQueue, nextId, "swapOff", "", "")
          /\ nextId' = nextId + 1
  /\ UNCHANGED <<worldVars, cfgLock, loopVars, rl, ap, envVars, passLog, executed, invoked,
                 iterVars, winVars>>

TaskMsgStep ==
  \/ AddObjectMsg("image", "pic")
  \/ \E n \in TaskNames : DeleteObjectMsg(n)
  \/ \E m \in TaskNames : RenameObjectMsg("img", m)
  \/ ReplaceObjectMsg("img", "image")

RecurringMsgStep ==
  \E v \in {0, 1} : PingTestMsg(v) \/ SwapTestMsg(v)

\* ------------------------------------------------------------ environment
\* Another thread (a file reader, a grabber) marks the object's buffer updated.
MarkUpdated(o) ==
  /\ o \in DOMAIN objects
  /\ ~objects[o].updated
  /\ mainpc \notin {"exited", "destroyed"}
  /\ objects' = [objects EXCEPT ![o].updated = TRUE]
  /\ UNCHANGED <<scenes, masterSceneName, quit, sceneLaunched, innerScene, innerThread,
                 config, reloadingConfig, objectDest, connected, cfgLock, loopVars, rl, ap,
                 envVars, passLog>>
  /\ UNCHANGED <<taskVars, iterVars, winVars>>

\* A buffer source (a reader thread of an image, a mesh, a queue) has written
\* new content in the buffer of o and set its updated flag; it does so at any
\* time, whatever the loop is doing.
BufferUpdated(o) ==
  /\ o \in DOMAIN objects
  /\ o \notin unsent \/ ~objects[o].updated
  /\ mainpc \notin {"exited", "destroyed"}
  /\ objects' = [objects EXCEPT ![o].updated = TRUE]
  /\ unsent' = unsent \cup {o}
  /\ UNCHANGED <<scenes, masterSceneName, quit, sceneLaunched, innerScene, innerThread,
                 config, reloadingConfig, objectDest, connected, cfgLock, loopVars, rl, ap,
                 envVars, passLog, taskVars, fan, pace, save, winVars>>

\* The transfer of the payload of n has completed.
TransferComplete(n) ==
  /\ inFlight[n]
  /\ inFlight' = [inFlight EXCEPT ![n] = FALSE]
  /\ UNCHANGED <<worldVars, cfgLock, loopVars, rl, ap, procs, passLog>>
  /\ UNCHANGED <<taskVars, iterVars, winVars>>

EnvStep ==
  \/ \E p \in Pids : SceneLaunchedFromProcess(p)
  \/ SceneLaunchedFromInner
  \/ Leave
  \/ QuitMsg
  \/ \E n \in BufferNames : HandleSerializedObject(n) \/ MarkUpdated(n) \/ TransferComplete(n)
  \/ \E d \in DocIds, valid \in BOOLEAN : LoadConfigMsg(d, valid)

Next ==
  \/ \E t \in {"main", "reload"} : ApplyBegin(t)
  \/ ApplyStep
  \/ LoopStep
  \/ Destructor
  \/ ReloadStep
  \/ EnvStep

Spec == Init /\ [][Next]_vars

\* The configuration passes alone: World::run up to its loop, reloads, the
\* Scenes and signals. A thread that can take a step of applyConfig takes it:
\* every wait inside applyConfig is a timed one.
NextApply ==
  \/ \E t \in {"main", "reload"} : ApplyBegin(t)
  \/ ApplyStep
  \/ ReloadStep
  \/ \E p \in Pids : SceneLaunchedFromProcess(p)
  \/ SceneLaunchedFromInner
  \/ Leave
  \/ \E d \in DocIds, valid \in BOOLEAN : LoadConfigMsg(d, valid)

SpecApply == Init /\ [][NextApply]_vars /\ WF_vars(ApplyStep)

\* The configuration passes with the asynchronous task of "loadConfig" taken
\* step by step: the start of the task, the load of the file, the teardown.
NextReload ==
  \/ \E t \in {"main", "reload"} : ApplyBegin(t)
  \/ ApplyStep
  \/ ReloadStep
  \/ \E p \in Pids : SceneLaunchedFromProcess(p)
  \/ SceneLaunchedFromInner
  \/ \E d \in DocIds, valid \in BOOLEAN : LoadConfigBegin(d, valid)
  \/ LoadConfigFailed
  \/ LoadConfigLoaded

SpecReload == Init /\ [][NextReload]_vars

\* The configuration passes, the first one and the reloads, on documents that
\* leave the display out, name another display or name the World's display.
InitDisplay == InitFrom(DocIds \cup DisplayDocIds)

NextDisplay ==
  \/ \E t \in {"main", "reload"} : ApplyBegin(t)
  \/ ApplyStep
  \/ ReloadStep
  \/ \E p \in Pids : SceneLaunchedFromProcess(p)
  \/ SceneLaunchedFromInner
  \/ \E d \in DisplayDocIds, valid \in BOOLEAN : LoadConfigMsg(d, valid)

SpecDisplay == InitDisplay /\ [][NextDisplay]_vars

\* World::run alone, with the Scenes, the signals and the buffer transfers but
\* no reload: the main thread takes the step it can take (every wait of
\* applyConfig and of the loop body is a timed one; nothing else holds the
\* configuration lock). A transfer need never complete.
NextLoop ==
  \/ ApplyBegin("main")
  \/ ApplyStep
  \/ LoopStep
  \/ Destructor
  \/ \E p \in Pids : SceneLaunchedFromProcess(p)
  \/ SceneLaunchedFromInner
  \/ Leave
  \/ QuitMsg
  \/ \E n \in BufferNames : HandleSerializedObject(n) \/ MarkUpdated(n) \/ TransferComplete(n)

SpecLoop == Init /\ [][NextLoop]_vars /\ WF_vars(ApplyBegin("main") \/ ApplyStep \/ LoopStep)

\* World::run alone on documents whose master is the inner Scene, an external
\* Scene or a spawned process.
SpecTelemetry == InitDisplay /\ [][NextLoop]_vars

\* The first applyConfig of World::run on any document, with the Scenes.
NextMalformed ==
  \/ ApplyBegin("main")
  \/ ApplyStep
  \/ ApplyNoName
  \/ ApplyException
  \/ \E p \in Pids : SceneLaunchedFromProcess(p)
  \/ SceneLaunchedFromInner
  \/ Leave

SpecMalformed == InitMalformed /\ [][NextMalformed]_vars

\* The pacing computation of the loop on the framerates the attribute can set
\* and on elapsed times around the frame interval.
NextPace ==
  \/ \E arg \in FramerateArgs : FramerateMsg(arg)
  \/ \E e \in UNION {ElapsedSamples(Max(1, arg)) : arg \in FramerateArgs} : LoopPaceWait(e)

SpecPace == Init /\ [][NextPace]_vars

\* World::run with the serialization block taken thread by thread, the buffer
\* updates and the messages that delete an object.
InitFan == InitFrom(DocIds \cup FanDocIds)

NextFan ==
  \/ ApplyBegin("main")
  \/ ApplyStep
  \/ LoopLock \/ LoopRunTasks
  \/ FanStart \/ FanLaunch
  \/ \E o \in FanNames : FanTask(o)
  \/ FanJoin
  \/ LoopWait \/ LoopDispatch \/ LoopAttribs \/ LoopTelemetry \/ LoopRelay
  \/ LoopQuit \/ LoopGoOn \/ LoopPace
  \/ Destructor
  \/ \E p \in Pids : SceneLaunchedFromProcess(p)
  \/ SceneLaunchedFromInner
  \/ \E o \in FanNames : MarkUpdated(o)
  \/ \E n \in BufferNames : TransferComplete(n)
  \/ \E n \in TaskNames : DeleteObjectMsg(n)

SpecFan == InitFan /\ [][NextFan]_vars

\* World::run with the serialization block taken thread by thread, the
\* messages that delete an object and the reloads.
NextFanReload ==
  \/ \E t \in {"main", "reload"} : ApplyBegin(t)
  \/ ApplyStep
  \/ ReloadStep
  \/ \E d \in FanDocIds : LoadConfigMsg(d, TRUE)
  \/ LoopLock \/ LoopRunTasks
  \/ FanStart \/ FanLaunch
  \/ \E o \in FanNames : FanTask(o)
  \/ FanJoin
  \/ LoopWait \/ LoopDispatch \/ LoopAttribs \/ LoopTelemetry \/ LoopRelay
  \/ LoopQuit \/ LoopGoOn \/ LoopPace
  \/ \E p \in Pids : SceneLaunchedFromProcess(p)
  \/ SceneLaunchedFromInner
  \/ \E n \in TaskNames : DeleteObjectMsg(n)

SpecFanReload == InitFan /\ [][NextFanReload]_vars

\* World::run with the serialization tasks taken call by call and the buffer
\* sources that write new content at any time.
NextRace ==
  \/ ApplyBegin("main")
  \/ ApplyStep
  \/ LoopLock \/ LoopRunTasks
  \/ FanStart \/ FanLaunch
  \/ \E o \in FanNames : FanTaskRead(o)
  \/ \E o \in FanNames : FanTaskClear(o)
  \/ FanJoin
  \/ LoopWait \/ LoopDispatch \/ LoopAttribs \/ LoopTelemetry \/ LoopRelay
  \/ LoopQuit \/ LoopGoOn \/ LoopPace
  \/ \E p \in Pids : SceneLaunchedFromProcess(p)
  \/ SceneLaunchedFromInner
  \/ \E o \in FanNames : BufferUpdated(o)
  \/ \E n \in BufferNames : TransferComplete(n)

SpecRace == InitFan /\ [][NextRace]_vars

\* World::run up to the runTasks call of an iteration, in which a task saves
\* the configuration or the project or asks the master for object names.
NextSave ==
  \/ ApplyBegin("main")
  \/ ApplyStep
  \/ \E p \in Pids : SceneLaunchedFromProcess(p)
  \/ SceneLaunchedFromInner
  \/ LoopLock
  \/ \E op \in SaveOps : SaveBegin(op)
  \/ \E answered \in BOOLEAN : SaveAsk(answered)
  \/ SaveReturn

SpecSave == Init /\ [][NextSave]_vars

\* World::run with the messages that queue one-shot tasks.
NextTasks ==
  \/ ApplyBegin("main")
  \/ ApplyStep
  \/ LoopStep
  \/ Destructor
  \/ \E p \in Pids : SceneLaunchedFromProcess(p)
  \/ SceneLaunchedFromInner
  \/ QuitMsg
  \/ TaskMsgStep

SpecTasks == Init /\ [][NextTasks]_vars

\* World::run with the messages that register and remove recurring tasks.
NextRecurring ==
  \/ ApplyBegin("main")
  \/ ApplyStep
  \/ LoopStep
  \/ Destructor
  \/ \E p \in Pids : SceneLaunchedFromProcess(p)
  \/ SceneLaunchedFromInner
  \/ QuitMsg
  \/ RecurringMsgStep

SpecRecurring == Init /\ [][NextRecurring]_vars

\* ===================================================================== claims
Kinds(log) == {m[1] : m \in log}
LoopBody == {"tasks", "serialize", "wait", "dispatch", "attribs", "telemetry", "relay",
             "check", "pace"}

\* C1 (as stated): whenever the World calls sendBuffer for N, in the dispatch
\* step or through handleSerializedObject, no earlier payload for N is still in
\* flight (a wait that drained every earlier send lies between the two sends).
C1_NoSendWhileInFlight ==
  [][ /\ LoopDispatch => \A n \in serialized : ~inFlight[n]
      /\ \A n \in BufferNames : HandleSerializedObject(n) => ~inFlight[n] ]_vars

\* C1 (amended): every dispatch step of the loop comes after a
\* waitForBufferSending call of the same iteration that has returned, drained
\* or timed out.
C1_WaitReturnedBeforeDispatch ==
  mainpc = "dispatch" => waitResult \in {"drained", "timeout"}

\* C1 witness: the wait timed out and the iteration is about to send a payload
\* for a name that still has one in flight.
C1_Witness ==
  /\ mainpc = "dispatch"
  /\ waitResult = "timeout"
  /\ \E n \in serialized : inFlight[n]

\* C2 (as stated): no "link" message of a pass is sent before every worker of
\* the worker table has answered the "sync" request of that pass.
C2_NoLinkBeforeSyncAcked ==
  (ap.pc # "idle" /\ "link" \in Kinds(passLog)) => DOMAIN scenes \subseteq ap.synced

\* C3: once the readiness wait of a pass has timed out, the shutdown flag is
\* set and the pass is over: the declarations before the timed-out one are the
\* registered workers, nothing was created after it, and no setMaster, add,
\* sync, link, attribute or start message was sent.
C3_SpawnTimeoutAborts ==
  ap.timedOut # NoScene =>
    /\ quit
    /\ ap.pc = "done"
    /\ ap.timedOut \notin DOMAIN scenes
    /\ Cardinality(DOMAIN scenes) = ap.i - 1
    /\ ap.spawned \subseteq DOMAIN scenes \cup {ap.timedOut}
    /\ Kinds(passLog) \subseteq {"param"}

\* C3 witness: the first of two declarations timed out.
C3_Witness ==
  /\ ap.timedOut # NoScene
  /\ ap.i = 1
  /\ Len(ap.jsScenes) = 2
  /\ scenes = EmptyMap

\* The worker whose readiness the pass is waiting for has itself sent
\* "sceneLaunched" since its creation started.
OwnAck(w) ==
  IF ap.pid \in Pids THEN procs[ap.pid].name = w /\ procs[ap.pid].st # "starting"
  ELSE innerScene = w /\ innerThread # "starting"

\* C4 (as stated): a worker declared with spawn > 0 is registered, and its
\* link connected, only after that very worker has sent its "launched"
\* acknowledgement.
C4_RegisteredOnlyAfterOwnAck ==
  [][ \A w \in (DOMAIN scenes' \ DOMAIN scenes) \cap ap.spawned : OwnAck(w) ]_vars

\* C5: the loop is left only from the shutdown check, with the flag set, and
\* the step that leaves it has sent "quit" to every worker of the table.
C5_ExitOnlyAfterQuitBroadcast ==
  [][ (mainpc # "exited" /\ mainpc' = "exited") =>
        /\ mainpc = "check"
        /\ quit
        /\ scenes' = scenes
        /\ quitSent' = DOMAIN scenes ]_vars

\* C5 witness: the loop has ended and two workers were sent "quit".
C5_Witness ==
  /\ mainpc = "exited"
  /\ Cardinality(quitSent) = 2
  /\ quitSent = DOMAIN scenes

\* C6 (as stated): a worker leaves the worker table only after its process was
\* waited on or, for the collocated worker, its thread was joined.
C6_ReapedBeforeDropped ==
  [][ \A w \in DOMAIN scenes \ DOMAIN scenes' :
        /\ scenes[w] \in Pids => procs'[scenes[w]].st = "reaped"
        /\ (scenes[w] = -1 /\ innerScene = w) => innerThread' = "none" ]_vars

\* C7 (as stated): while a loop iteration holds the configuration lock, the
\* reconfiguration task quits, disconnects or reaps no worker and modifies
\* neither the tables, the master name nor the configuration document.
C7_NoTeardownDuringIteration ==
  [][ (cfgLock = "main" /\ mainpc \in LoopBody /\ rl' # rl /\ rl.pc # "idle") =>
        UNCHANGED <<scenes, masterSceneName, config, objects, objectDest, connected,
                    procs, innerThread, innerScene>> ]_vars

\* The phase of a message of a pass.
PhaseRank(kind) ==
  CASE kind = "param" -> 1 [] kind = "setMaster" -> 2 [] kind = "add" -> 3
    [] kind = "path" -> 3 [] kind = "sync" -> 4 [] kind = "link" -> 5
    [] kind = "attr" -> 6 [] kind = "world" -> 7 [] kind = "start" -> 8

\* C8: within a pass no message of a phase is sent after a message of a later
\* phase, and workers are registered only before setMaster is sent.
C8_PhaseOrder ==
  [][ /\ \A m \in passLog' \ passLog : \A k \in passLog :
             PhaseRank(k[1]) <= PhaseRank(m[1])
      /\ (ap.pc # "idle" /\ ap'.pc # "idle" /\ scenes' # scenes) =>
             Kinds(passLog) \subseteq {"param"} ]_vars

\* C8 witness: a pass that succeeded for two workers and sent a message of
\* every phase.
C8_Witness ==
  /\ ap.pc = "done"
  /\ ap.result = "ok"
  /\ Cardinality(ap.started) = 2
  /\ Kinds(passLog) = {"param", "setMaster", "add", "path", "sync", "link", "attr",
                       "world", "start"}

\* C9: after an empty answer to "start" the shutdown flag is set and the pass
\* is over, "start" having gone to the workers up to the silent one only; a
\* step of the start phase that got its answer leaves the flag as it was.
C9_StartTimeout ==
  /\ [](ap.startFailed # NoScene =>
          /\ quit
          /\ ap.pc = "done"
          /\ ap.started = {w \in DOMAIN scenes : Rank(w) <= Rank(ap.startFailed)})
  /\ [][ (ap.pc = "start" /\ ap' # ap /\ ap'.startFailed = NoScene) => quit' = quit ]_vars

\* C9 witness: the first of two workers did not answer "start".
C9_Witness ==
  /\ ap.startFailed # NoScene
  /\ Cardinality(DOMAIN scenes) = 2
  /\ ap.started = {ap.startFailed}
  /\ DOMAIN scenes \ ap.started # {}

\* C10: every pass of applyConfig that has begun returns and releases the
\* configuration lock.
C10_ApplyReturns ==
  (ap.pc # "idle") ~> (ap.pc = "idle" /\ cfgLock = "free")

\* C10 witness: a pass is waiting for a worker that has not reported ready.
C10_Witness ==
  /\ ap.pc = "waitLaunch"
  /\ ~sceneLaunched
  /\ ap.pid \in Pids
  /\ procs[ap.pid].st = "starting"

\* C11: an iteration that has reached its wait for pending sends reaches its
\* shutdown check, whether or not the transfers in flight ever complete.
C11_WaitEndsIterationGoesOn ==
  (mainpc = "wait") ~> (mainpc = "check")

\* C11 witness: the wait has timed out with a payload still in flight and the
\* iteration is at its dispatch step with nothing new to send.
C11_Witness ==
  /\ mainpc = "dispatch"
  /\ waitResult = "timeout"
  /\ inFlight["img"]
  /\ serialized = {}

OnlyTask(kind) == Len(taskQueue) = 1 /\ taskQueue[1].kind = kind

\* C13 (as stated): when runTasks runs the renameObject task of an object of
\* the object table, the destination set stored under the new name afterwards
\* is the one that was stored under the old name, the record is under the new
\* name, and the old name is in neither table.
C13_RenameMovesDestinations ==
  [][ (LoopRunTasks /\ OnlyTask("rename") /\ taskQueue[1].a \in DOMAIN objects
         /\ taskQueue[1].a \in DOMAIN objectDest /\ taskQueue[1].a # taskQueue[1].b) =>
        /\ taskQueue[1].b \in DOMAIN objects'
        /\ taskQueue[1].b \in DOMAIN objectDest'
        /\ objectDest'[taskQueue[1].b] = objectDest[taskQueue[1].a]
        /\ taskQueue[1].a \notin DOMAIN objects'
        /\ taskQueue[1].a \notin DOMAIN objectDest' ]_vars

\* C14: when runTasks runs the deleteObject task of an object, every other
\* object keeps its record and its destination set, and the deleted name is in
\* neither table.
C14_DeleteLeavesOthers ==
  [][ (LoopRunTasks /\ OnlyTask("delete")) =>
        /\ taskQueue[1].a \notin DOMAIN objects'
        /\ taskQueue[1].a \notin DOMAIN objectDest'
        /\ DOMAIN objects' = DOMAIN objects \ {taskQueue[1].a}
        /\ DOMAIN objectDest' = DOMAIN objectDest \ {taskQueue[1].a}
        /\ \A o \in DOMAIN objects' : objects'[o] = objects[o]
        /\ \A o \in DOMAIN objectDest' : objectDest'[o] = objectDest[o] ]_vars

\* C14 witness: "pic" was added with the workers "img" has, "img" was deleted
\* afterwards, and "pic" still has both its workers.
C14_Witness ==
  /\ Len(executed) = 2
  /\ executed[1].kind = "add" /\ executed[1].b = "pic"
  /\ executed[2].kind = "delete" /\ executed[2].a = "img"
  /\ DOMAIN scenes = {"s1", "s2"}
  /\ DOMAIN objects = {"pic"}
  /\ objectDest = ("pic" :> << "s1", "s2" >>)

\* C16: runTasks invokes every registered recurring task exactly once and no
\* other; "pingTest" and "swapTest" with 0 leave the name unregistered,
\* whether or not it was registered, and touch no other name.
C16_RecurringOncePerIteration ==
  /\ [][ LoopRunTasks => invoked' = [n \in RecurringNames |-> IF n \in recurring THEN 1 ELSE 0]
       ]_vars
  /\ [][ (PingTestMsg(0) => /\ "pingTest" \notin recurring'
                            /\ recurring' \ {"pingTest"} = recurring \ {"pingTest"})
         /\ (SwapTestMsg(0) => /\ "swapTest" \notin recurring'
                               /\ recurring' \ {"swapTest"} = recurring \ {"swapTest"})
       ]_vars
  /\ [][ invoked' # invoked => LoopRunTasks ]_vars

\* C16 witness: "pingTest" was invoked by the latest runTasks and has been
\* removed since; "swapTest" is registered and was not invoked yet.
C16_Witness ==
  /\ invoked["pingTest"] = 1
  /\ "pingTest" \notin recurring
  /\ invoked["swapTest"] = 0
  /\ "swapTest" \in recurring

\* The one-shot tasks in the order they were queued: those that ran, then
\* those that wait.
AllTasks == executed \o taskQueue

\* C17: the tasks run in the order they were queued, each once (the k-th task
\* that ran is the k-th that was queued, and a task that ran has left the
\* queue); the delete, add and link tasks of replaceObject follow each other in
\* that order.
C17_TasksFifoOnce ==
  /\ \A k \in 1..Len(AllTasks) : AllTasks[k].id = k
  /\ \A k \in 1..Len(AllTasks) :
       AllTasks[k].kind = "link" =>
         /\ k >= 3
         /\ AllTasks[k - 1].kind = "add" /\ AllTasks[k - 1].b = AllTasks[k].a
         /\ AllTasks[k - 2].kind = "delete" /\ AllTasks[k - 2].a = AllTasks[k].a

\* C17 witness: the three tasks of a replaceObject have run.
C17_Witness ==
  /\ Len(executed) = 3
  /\ executed[3].kind = "link"
  /\ taskQueue = << >>

\* The names a sequence of scene declarations declares.
DeclNames(decls) == {decls[k].name : k \in 1..Len(decls)}

\* The tables a pass over document d fills when every worker reports ready.
OnceTables(d) == AddAll([objects |-> EmptyMap, dest |-> EmptyMap], d, DeclNames(d.scenes))

\* The worker table the first pass of a run fills: the collocated or external
\* workers with -1, the first spawned process with the first process id.
FirstPassTable(d) ==
  [n \in DeclNames(d.scenes) |->
     IF \E k \in 1..Len(d.scenes) :
          d.scenes[k].name = n /\ d.scenes[k].spawn > 0 /\ d.scenes[k].display # ""
     THEN 1 ELSE -1]

\* A pass run by the reload task, after its teardown, has succeeded.
ReappliedOk == ap.pc = "done" /\ ap.result = "ok" /\ ap.owner = "reload"

\* Every declaration the pass spawned a process for is registered with the
\* process that was spawned for it.
SpawnsSucceeded ==
  \A n \in DOMAIN scenes :
    FirstPassTable(Doc)[n] \in Pids => scenes[n] \in Pids /\ procs[scenes[n]].name = n

FirstIn(decls, S) ==
  decls[CHOOSE k \in 1..Len(decls) :
          /\ decls[k].name \in S
          /\ \A j \in 1..(k - 1) : decls[j].name \notin S].name

\* C18 (as stated): at the end of a pass that registered a worker, the master
\* name is a key of the worker table and is the first declared scene that was
\* registered, unless a reload has reset it since and has its own pass to come.
C18_MasterIsFirstRegistered ==
  (ap.pc = "done" /\ DOMAIN scenes # {}
     /\ ~(rl.pc = "callApply" /\ masterSceneName = NoName)) =>
    /\ masterSceneName \in DOMAIN scenes
    /\ masterSceneName = FirstIn(ap.jsScenes, DOMAIN scenes)


\* The names of the declarations before position i
NamesBefore(decls, i) == {decls[k].name : k \in {j \in 1..Len(decls) : j < i}}

\* C19 (as stated, scenes): when a pass has run to its end without a timeout or
\* an exception, every named scene declared after a declaration without a name
\* is in the worker table.
C19_NamelessSceneSkipped ==
  (ap.pc = "done" /\ ap.result \notin {"spawnTimeout", "exception"}) =>
    \A k \in 1..Len(ap.jsScenes) : \A j \in 1..Len(ap.jsScenes) :
      (ap.jsScenes[k].name = NoMember /\ j > k /\ Named(ap.jsScenes[j])) =>
        ap.jsScenes[j].name \in DOMAIN scenes

\* C19 (objects): once the objects of a pass were added and configured, every
\* typed object of a registered scene's section has its attributes sent, and
\* is mirrored with that scene as a destination when its type is mirrored,
\* whether or not an object without a type comes before it.
C19_UntypedObjectSkipped ==
  ap.pc \in {"world", "start"} =>
    \A s \in DOMAIN scenes \cap Sections(Doc) : \A k \in 1..Len(Doc.objs[s]) :
      LET o == Doc.objs[s][k]
      IN  /\ Typed(o) => <<"attr", o.name>> \in passLog
          /\ ~Typed(o) => o.name \notin DOMAIN objects
          /\ (Typed(o) /\ o.type \in LocalTypes) =>
                /\ o.name \in DOMAIN objects
                /\ \E q \in 1..Len(objectDest[o.name]) : objectDest[o.name][q] = s

C19_UntypedWitness ==
  /\ ap.pc = "start"
  /\ "s1" \in DOMAIN scenes /\ "s1" \in Sections(Doc)
  /\ Len(Doc.objs["s1"]) = 2 /\ ~Typed(Doc.objs["s1"][1]) /\ Doc.objs["s1"][2].name = "img"
  /\ "img" \in DOMAIN objects /\ "cam" \notin DOMAIN objects

C21_FailedLoadChangesNothing ==
  [][ /\ (rl.pc = "loading" /\ ~rl.valid /\ rl' # rl) =>
            /\ rl' = IdleRl
            /\ UNCHANGED <<config, scenes, masterSceneName, objects, objectDest, procs,
                           innerScene, innerThread, connected, reloadingConfig>>
      /\ config' # config =>
            /\ rl.pc = "teardown" /\ rl.valid /\ KeysLeft = {}
            /\ config' = rl.doc ]_vars

\* A load that failed while workers run and objects are mirrored.
C21_Witness ==
  /\ rl.pc = "loading" /\ ~rl.valid
  /\ mainpc = "loop"
  /\ DOMAIN scenes # {} /\ DOMAIN objects # {}
  /\ rl.doc # config


\* C22: the step applyConfig takes on a declaration with spawn = 0 records the
\* name in the worker table (with pid -1) and connects it, creates no process
\* and no thread, does not reset or wait for the acknowledgement flag, and goes
\* on to the next declaration.
C22_ExternalRegisteredOnly ==
  [][ (ap.pc = "scenes" /\ ap.i <= Len(ap.jsScenes) /\ ap' # ap
         /\ Named(ap.jsScenes[ap.i]) /\ ap.jsScenes[ap.i].spawn = 0) =>
        LET n == ap.jsScenes[ap.i].name
        IN  /\ n \in DOMAIN scenes' /\ scenes'[n] = -1
            /\ n \in connected'
            /\ UNCHANGED <<procs, innerScene, innerThread, sceneLaunched>>
            /\ ap'.pc = "scenes" /\ ap'.i = ap.i + 1
            /\ ap'.spawned = ap.spawned ]_vars

\* The external Scene s3 is registered and nothing was created for it.
C22_Witness ==
  /\ ap.pc = "scenes" /\ ap.i = 2 /\ ap.owner = "main"
  /\ DOMAIN scenes = {"s3"} /\ scenes["s3"] = -1 /\ "s3" \in connected
  /\ \A p \in Pids : procs[p].st = "unused"
  /\ innerThread = "none" /\ innerScene = NoScene


\* The display a declaration asks for: its "display" parameter, or the display
\* of the World process when it has none.
TargetDisplay(decl) == IF decl.display = "" THEN EnvDisplay ELSE decl.display

\* C23 (as stated): the step that creates the worker of a declaration with
\* spawn > 0 starts the inner Scene exactly when the declaration's display is
\* the display of the World process and there is no inner Scene; otherwise it
\* spawns a process.
C23_InnerIffWorldDisplay ==
  [][ (ap.pc = "scenes" /\ ap'.pc = "waitLaunch") =>
        ((innerScene' # innerScene) <=>
           (TargetDisplay(ap.jsScenes[ap.i]) = EnvDisplay /\ innerScene = NoScene)) ]_vars

\* C23 (at most one): the thread of the inner Scene is joined whenever the
\* pointer to the inner Scene is null, so an inner Scene is only ever started
\* when none runs.
C23_OneInnerScene ==
  innerScene = NoScene => innerThread = "none"


\* The step of the iteration that follows each step (world.cpp:70-171).
NextPhase(pc) ==
  CASE pc = "loop"      -> {"tasks"}
    [] pc = "tasks"     -> {"serialize"}
    [] pc = "serialize" -> {"wait"}
    [] pc = "wait"      -> {"dispatch"}
    [] pc = "dispatch"  -> {"attribs"}
    [] pc = "attribs"   -> {"telemetry"}
    [] pc = "telemetry" -> {"relay", "check"}
    [] pc = "relay"     -> {"check"}
    [] pc = "check"     -> {"pace", "exited"}
    [] pc = "pace"      -> {"loop"}
    [] OTHER            -> {"init", "apply", "loop", "exited", "destroyed"}

\* C24: the loop goes from each step to the next one of the fixed order: lock,
\* tasks, serialization, wait for the pending sends, dispatch, attributes,
\* telemetry, shutdown check, pacing; the lock is taken by the first step and
\* held to the end of the iteration; payloads are dispatched by the step that
\* follows the wait, whose call has then returned.
C24_FixedStepOrder ==
  [][ /\ mainpc' # mainpc => mainpc' \in NextPhase(mainpc)
      /\ (mainpc = "loop" /\ mainpc' # mainpc) => (cfgLock = "free" /\ cfgLock' = "main")
      /\ mainpc' \in LoopBody => cfgLock' = "main"
      /\ inFlight' # inFlight /\ mainpc' # mainpc =>
            (mainpc = "dispatch" /\ waitResult \in {"drained", "timeout"}) ]_vars

\* An iteration that went through every step: it dispatched the payload of
\* "img" and is at its pacing wait.
C24_Witness ==
  /\ mainpc = "pace" /\ cfgLock = "main" /\ ~quit
  /\ inFlight["img"] /\ \A o \in DOMAIN objects : ~objects[o].updated
  /\ serialized = {}

\* C29 (as stated): when the table has the master worker, the loop goes on to
\* relay the timings, the clock and the logs exactly when the master is not the
\* inner Scene of the World process.
C29_RelayIffMasterNotInner ==
  [][ (mainpc = "telemetry" /\ mainpc' # mainpc /\ masterSceneName \in DOMAIN scenes) =>
        ((mainpc' = "relay") <=> (innerScene # masterSceneName)) ]_vars

\* C29 (the test of the code): the relay is made exactly when the master is
\* recorded with a value other than -1.
C29_RelayIffPidRecorded ==
  [][ (mainpc = "telemetry" /\ mainpc' # mainpc /\ masterSceneName \in DOMAIN scenes) =>
        ((mainpc' = "relay") <=> (scenes[masterSceneName] # -1)) ]_vars


\* C30 (as stated): the wait asked for at the end of an iteration is the frame
\* interval minus the elapsed time, is not negative and is not longer than one
\* frame interval, whatever the elapsed time.
C30_PaceWaitWithinInterval ==
  pace.wait.kind # "none" =>
    /\ pace.wait.kind = "us"
    /\ pace.wait.us >= 0 /\ pace.wait.us <= Interval(pace.framerate)

\* C30 (iterations shorter than the interval): the wait asked for is the frame
\* interval minus the elapsed time, between zero and the interval.
C30_PaceWaitWhenInTime ==
  (pace.wait.kind # "none" /\ pace.elapsed <= Interval(pace.framerate)) =>
    /\ pace.wait = [kind |-> "us", us |-> Interval(pace.framerate) - pace.elapsed]
    /\ pace.wait.us >= 0 /\ pace.wait.us <= Interval(pace.framerate)


\* The objects whose serialization task ends in the step.
TaskEnded == fan.running \ fan'.running

C26_EveryObjectUpdatedOnce ==
  mainpc = "wait" => \A o \in DOMAIN objects : fan.updates[o] = 1

\* When the block has ended, the objects whose task was started have had
\* update() called once, the others not at all; the others are those whose
\* distant name was in serializedObjects already.
C26_UpdatedOnceIfLaunched ==
  mainpc = "wait" =>
    \A o \in DOMAIN objects :
       /\ fan.updates[o] = (IF o \in fan.launched THEN 1 ELSE 0)
       /\ o \notin fan.launched =>
             \E m \in fan.launched : m # o /\ DistantName(m) = DistantName(o)


\* C27: the serialization tasks are joined before the loop goes on: outside the
\* serialization block no task is running, so the wait for the pending sends
\* and the dispatch of an iteration start after every task started in the
\* iteration has ended, and none runs on into the next iteration; the block
\* is left only when every object has been passed and every task has ended.
C27_JoinBeforeWait ==
  /\ mainpc # "serialize" => fan.running = {}
  /\ fan.phase = "idle" => fan.running = {}
  /\ mainpc \in {"wait", "dispatch"} =>
        /\ fan.visited = DOMAIN objects
        /\ \A o \in fan.launched : fan.updates[o] = 1

\* The wait for the pending sends is reached after two tasks ran and ended,
\* one of which produced a payload.
C27_Witness ==
  /\ mainpc = "wait"
  /\ Cardinality(fan.launched) >= 2
  /\ fan.running = {}
  /\ serialized # {}

\* C28: between the start of the serialization block and its join the object
\* table and the destination table are not changed; records are inserted,
\* removed or renamed only by the runTasks step of the loop or by a step of
\* applyConfig.
C28_TableStableDuringFanOut ==
  [][ (DOMAIN objects' # DOMAIN objects \/ objectDest' # objectDest) =>
        /\ fan.phase # "launch"
        /\ fan.running = {}
        /\ \/ mainpc = "tasks" /\ mainpc' = "serialize"
           \/ ap.pc # "idle"
           \/ ap'.pc # "idle" ]_vars

\* A "deleteObject" message arrived while a serialization task was running:
\* its task is queued and the object is still in the table.
C28_Witness ==
  /\ mainpc = "serialize"
  /\ fan.running # {}
  /\ \E k \in 1..Len(taskQueue) :
        /\ taskQueue[k].kind = "delete"
        /\ taskQueue[k].a \in DOMAIN objects
        /\ taskQueue[k].a \in fan.visited


\* C31: once the "framerate" attribute has been set, whatever the values it
\* was given, the framerate of the World is at least 1, so that the frame
\* interval 1000000 / framerate is defined and at most 1000000 microseconds.
C31_FramerateAtLeastOne ==
  pace # NoPace =>
    /\ pace.framerate >= 1
    /\ Interval(pace.framerate) \in 0..1000000
    /\ pace.wait # NoWait => (pace.wait.kind = "us" => pace.wait.us <= 1000000)

\* The framerate is 1, the smallest the handler stores, and the pacing wait
\* was asked for the whole interval of 1000000 microseconds.
C31_Witness ==
  /\ pace.framerate = 1
  /\ pace.wait = [kind |-> "us", us |-> 1000000]


\* C32: no buffer update is lost: a buffer whose content is newer than the
\* last payload serialized from it has its updated flag set, so that the
\* serialization block of this or of a later iteration produces a payload
\* from the new content.
C32_UnsentUpdateIsFlagged ==
  \A o \in unsent \cap DOMAIN objects : objects[o].updated

\* An update loses its flag only in the step that ends a task which had
\* serialized the buffer before the update was written.
C32_LostOnlyBetweenReadAndClear ==
  [][ \A o \in unsent' \cap DOMAIN objects' :
        (~objects'[o].updated /\ o \in DOMAIN objects /\ objects[o].updated) =>
           (o \in fan.clearing /\ o \in unsent) ]_vars


\* C33: no step of a loop iteration changes the worker table, whether or not a
\* master is designated, so that the "quit" broadcast and the telemetry are
\* addressed to registered workers only.
C33_LoopKeepsWorkerTable ==
  [][ (mainpc \in LoopBody) => scenes' = scenes ]_vars

\* With a master designated, which an apply pass has registered, a loop
\* iteration leaves the worker table as it is.
C33_LoopKeepsTableWithMaster ==
  [][ (mainpc \in LoopBody /\ masterSceneName \in DOMAIN scenes) => scenes' = scenes ]_vars


\* The spawned process p is recorded in the worker table.
Recorded(p) == \E n \in DOMAIN scenes : scenes[n] = p

\* C34: every process the World spawned and that still runs is recorded in the
\* worker table once the readiness wait for it is over, a wait that timed out
\* included, so that the "quit" broadcast of the loop reaches it.
C34_SpawnedProcessRecorded ==
  \A p \in Pids :
     (Live(p) /\ ~(ap.pc = "waitLaunch" /\ ap.pid = p)) => Recorded(p)

\* A process that is recorded in the worker table stays recorded as long as it
\* runs, and has been sent "quit" when the loop has ended.
C34_RecordedStaysRecorded ==
  [][ \A n \in DOMAIN scenes :
        /\ (scenes[n] \in Pids /\ procs'[scenes[n]].st \in {"starting", "ready"}) =>
              (n \in DOMAIN scenes' /\ scenes'[n] = scenes[n])
        /\ (scenes[n] \in Pids /\ mainpc' = "exited") => ~(procs'[scenes[n]].st \in {"starting", "ready"}) ]_vars


\* C35: the handle recorded for a worker is -1 exactly when the worker is the
\* inner Scene, which runs in a thread of the World; the telemetry step and
\* the teardown of a reload tell the inner Scene by that value.
C35_MinusOneIffInner ==
  \A n \in DOMAIN scenes : (scenes[n] = -1) <=> (innerScene = n)

\* The inner Scene is recorded with -1, and a worker recorded with the pid of
\* a process is not the inner Scene.
C35_InnerIsMinusOne ==
  \A n \in DOMAIN scenes :
     /\ innerScene = n => scenes[n] = -1
     /\ scenes[n] \in Pids => innerScene # n


\* The locks a thread holds follow from where it is: a lock_guard holds its
\* mutex from its declaration to the end of its block. _configurationMutex is
\* the variable cfgLock; _objectsMutex is held by the loop from line 80 to
\* line 127, and by the tasks, which the loop runs itself (line 77);
\* _childProcessMutex is released by wait_for while applyConfig waits and is
\* held by the "sceneLaunched" handler only while it sets the flag.
HoldsObjectsLock(t) == t = "main" /\ mainpc \in {"serialize", "wait", "dispatch"}
\* The thread is about to take _configurationMutex (lines 74 and 214).
WantsConfigLock(t) ==
  \/ t = "main" /\ mainpc \in {"init", "loop"}
  \/ t = "reload" /\ rl.pc = "callApply"

C37_NoMissingElementRead ==
  /\ save.missing = {}
  /\ save.pc # "crashed"

\* A worker that answered has its element 2 read, and only a read of a
\* missing element can end the process.
C37_AnsweredIsRead ==
  /\ save.asked = save.read \cup save.missing
  /\ save.pc = "crashed" => save.missing # {}


\* C38: the shutdown flag is monotonic: once it is set, by a signal, by the
\* "quit" attribute, by a spawn timeout or by a start timeout, no step resets
\* it, the applyConfig of a reload included.
C38_QuitMonotonic ==
  [][ quit => quit' ]_vars

\* The applyConfig of a reload has cleared the tables and registers workers
\* while the shutdown flag is set.
C38_Witness ==
  /\ quit
  /\ ap.owner = "reload"
  /\ ap.pc = "scenes"
  /\ reloadingConfig


\* C39: whatever applyConfig and the tasks of addObject, deleteObject and
\* renameObject have done, every name of the object table has an entry in the
\* destination table, and no destination list holds the same worker twice.
C39_ObjectsHaveDestinations ==
  /\ DOMAIN objects \subseteq DOMAIN objectDest
  /\ \A n \in DOMAIN objectDest :
        \A i, j \in 1..Len(objectDest[n]) : i # j => objectDest[n][i] # objectDest[n][j]

\* The tasks of an addObject and of a renameObject have run, and an object of
\* the table has two destinations.
C39_Witness ==
  /\ \E i, j \in 1..Len(executed) : executed[i].kind = "add" /\ executed[j].kind = "rename"
  /\ \E n \in DOMAIN objects : Len(objectDest[n]) >= 2


\* The queues of Window
QueueKinds == {"keys", "mouseBtn", "scroll"}

\* The events of a kind handed out so far, followed by those still queued, are
\* the events the callbacks recorded, in their order.
FifoOnce ==
  \A k \in QueueKinds : MapSeq(recorded[k], k) = reader.got[k] \o MapSeq(queues[k], k)

\* A call that changes what the caller holds returns the number of events that
\* were queued and hands out the front event, which leaves the queue; on an
\* empty queue it returns 0 and leaves the output arguments as they were.
ReturnsQueued(k) ==
  reader'[k] # reader[k] =>
    /\ reader'[k].ret = Len(queues[k])
    /\ IF queues[k] = << >>
       THEN reader'[k].args = reader[k].args /\ queues'[k] = queues[k]
       ELSE /\ << reader'[k].args >> = MapSeq(<< Head(queues[k]) >>, k)
            /\ queues'[k] = Tail(queues[k])

\* getMousePos hands out the position recorded last.
LatestPosition ==
  reader'.mousePos # reader.mousePos =>
    /\ recorded.mousePos # << >>
    /\ reader'.mousePos = PosOut(recorded.mousePos[Len(recorded.mousePos)])

\* C40: getKeys, getMouseBtn and getScroll hand out the queued events in the
\* order the callbacks recorded them, each once, however callbacks and readers
\* interleave; each call returns the number of events queued before it, 0 on
\* an empty queue with the output arguments untouched; getMousePos hands out
\* the most recent position only.
C40_InputQueuesFifo ==
  /\ []FifoOnce
  /\ [][ (\A k \in QueueKinds : ReturnsQueued(k)) /\ LatestPosition ]_vars

\* Two key events were handed out in the order they were recorded, the second
\* by a call that found one event queued, and a position was handed out too.
C40_Witness ==
  /\ Len(reader.got.keys) = 2
  /\ reader.got.keys[1] # reader.got.keys[2]
  /\ reader.keys.ret = 1
  /\ reader.mousePos # Unset

====
